---------------------------- MODULE Spec2Model ----------------------------
(***************************************************************************)
(* The request dispatcher executeProxiedRequest of the repository, in its  *)
(* three source variants:                                                  *)
(*   "apiClient"  src/services/apiClient.ts                                *)
(*   "part_001"   src/unnamed/part_001                                     *)
(*   "part_002"   src/unnamed/part_002                                     *)
(* One call of executeProxiedRequest is a process whose steps are the      *)
(* stretches of synchronous code between two awaits: the answer of the     *)
(* admission service, the end of a backoff sleep, the answer to a fetch.   *)
(* The view UgcGenView of src/unnamed/part_000, which fetches on its own,  *)
(* is the variable view: its steps are the clicks on its buttons, the      *)
(* timers of a batch and the answers to the fetches of its generations.    *)
(***************************************************************************)
EXTENDS Naturals, Sequences, FiniteSets, TLC

VARIABLES
    variant,              \* which source file's executeProxiedRequest runs
    logContext,           \* parameter logContext
    serviceType,          \* parameter serviceType
    specificToken,        \* parameter specificToken (NoToken when absent)
    hostname,             \* window.location.hostname
    selectedProxyServer,  \* sessionStorage 'selectedProxyServer' ("" when unset)
    drawable,             \* the servers a draw of Math.random can land on
    currentUser,          \* what localStorage 'currentUser' holds: "object",
                          \* "unparseable" text, or "absent"
    personalAuthToken,    \* localStorage currentUser.personalAuthToken
    tokensJSON,           \* what sessionStorage 'veoAuthTokens' holds: "array",
                          \* "object" (JSON that is no array), "unparseable"
                          \* text, or "absent"
    veoAuthTokens,        \* sessionStorage 'veoAuthTokens': the elements of the array
    pc,                   \* "start", "slot", "backoff", "fetch", "done"
    slotAnswers,          \* answers of request_generation_slot received so far
    slotRequests,         \* number of request_generation_slot calls issued
    waits,                \* number of backoff sleeps started
    attempts,             \* the attempt plan (attempts / candidates)
    i,                    \* loop index of the attempt in flight (1-based)
    netCalls,             \* number of fetch calls issued
    sent,                 \* the fetch calls issued: bearer token and server
    inFlight,             \* number of fetch calls issued and not yet settled
    statuses,             \* the strings passed to onStatusUpdate, in order
    lastResponse,         \* the response of the latest answered fetch
    lastError,            \* local lastError (its message)
    logEntries,           \* number of addLogEntry calls
    outcome,              \* what the call returned or threw
    priorRetryable,       \* history: every attempt answered before the latest
                          \* answer failed with a retryable error
    prior429,             \* history: every attempt answered before the latest
                          \* answer got HTTP 429
    received,             \* history: the responses the call has received, kept
                          \* when a second call runs alongside
    other,                \* the locals of a second call of executeProxiedRequest
                          \* that is suspended at an await (NoCall when the
                          \* call runs alone)
    view                  \* the state of the mounted UgcGenView: isGenerating,
                          \* slots, its timers and the generations in flight

vars == <<variant, logContext, serviceType, specificToken, hostname, selectedProxyServer,
          drawable, currentUser,
          personalAuthToken, tokensJSON, veoAuthTokens, pc, slotAnswers, slotRequests,
          waits, attempts, i, netCalls, sent, inFlight, statuses, lastResponse,
          lastError, logEntries, outcome, priorRetryable, prior429, received, other,
          view>>

-----------------------------------------------------------------------------
(* Bounds of the model *)

\* longest pool stored in the session, dispatch specification
MaxPool == 1

\* how many servers of the list the random draws of the dispatch
\* specification can land on
MaxDrawable == 2

\* longest pool stored in the session, plan specification
MaxPlanPool == 2

\* longest pool stored in the session, strict-plan specification
MaxStrictPool == 7

\* longest pool of which every order is drawn; of a longer pool the draws
\* are its rotations and their reversals
MaxFullShuffle == 3

\* longest pool stored in the session, eligibility specification
MaxEligiblePool == 11

\* how many clicks the user makes on the buttons of the view
MaxClicks == 2

\* how many reference images the user has uploaded to the view
MaxReferenceImages == 0

\* how many slots of the view the user clicks a button of: the last ones
MaxClickedSlots == 1

\* how many of the four kinds of answer the servers give to the fetches of
\* the view in one run
MaxAnswerKinds == 3

-----------------------------------------------------------------------------
(* Values *)

Variants == {"apiClient", "part_001", "part_002"}

\* A bearer token is its text before the last six characters and its last
\* six characters; the absent token (undefined, null, '') is NoToken.
NoToken == [pre |-> "", suf |-> ""]

tokSpecific == [pre |-> "ya29.s", suf |-> "SPEC01"]

tokPersonal == [pre |-> "ya29.p", suf |-> "PERS01"]

tokPoolA == [pre |-> "ya29.a", suf |-> "POOLA1"]

tokPoolB == [pre |-> "ya29.b", suf |-> "POOLB1"]

\* a token that differs from tokPoolA and ends in the same six characters
tokPoolA2 == [pre |-> "ya29.c", suf |-> "POOLA1"]

tokPoolC == [pre |-> "ya29.d", suf |-> "POOLC1"]

tokPoolD == [pre |-> "ya29.e", suf |-> "POOLD1"]

tokPoolE == [pre |-> "ya29.f", suf |-> "POOLE1"]

tokPoolF == [pre |-> "ya29.g", suf |-> "POOLF1"]

tokPoolG == [pre |-> "ya29.h", suf |-> "POOLG1"]

\* token.slice(-6)
Slice6(token) == token.suf

FALLBACK_SERVERS ==
    << "https://s1.monoklix.com", "https://s2.monoklix.com", "https://s3.monoklix.com",
       "https://s4.monoklix.com", "https://s5.monoklix.com", "https://s6.monoklix.com",
       "https://s7.monoklix.com", "https://s8.monoklix.com", "https://s9.monoklix.com",
       "https://s10.monoklix.com" >>

\* The calls the application makes: a context label with its service type.
Calls ==
    { [logContext |-> "VEO GENERATE",     serviceType |-> "veo"],
      [logContext |-> "IMAGEN RECIPE",    serviceType |-> "imagen"],
      [logContext |-> "VEO HEALTH CHECK", serviceType |-> "veo"],
      [logContext |-> "IMAGEN STATUS",    serviceType |-> "imagen"] }

\* the calls of the dispatch specification
DispatchCalls == { c \in Calls : c.logContext # "VEO GENERATE" }

\* logContext.includes(needle), for the labels of Calls
ContextIncludes(ctx, needle) ==
    CASE needle = "GENERATE"     -> ctx = "VEO GENERATE"
      [] needle = "RECIPE"       -> ctx = "IMAGEN RECIPE"
      [] needle = "HEALTH CHECK" -> ctx = "VEO HEALTH CHECK"
      [] OTHER                   -> FALSE

\* currentServerUrl.includes(s), for the URLs of the model: an override may
\* be a server of the list with a path after it.
UrlIncludes(url, s) ==
    \/ url = s
    \/ url = "https://s1.monoklix.com/" /\ s = "https://s1.monoklix.com"

-----------------------------------------------------------------------------
(* Sequences *)

Min(a, b) == IF a <= b THEN a ELSE b

\* s.slice(0, n)
Slice(s, n) == SubSeq(s, 1, Min(n, Len(s)))

Last(s) == s[Len(s)]

\* the sequences over S of length at most n
RECURSIVE SeqsUpTo(_, _)
SeqsUpTo(S, n) ==
    IF n = 0 THEN { <<>> }
    ELSE LET shorter == SeqsUpTo(S, n - 1)
         IN  shorter \cup { Append(s, e) : s \in { t \in shorter : Len(t) = n - 1 }, e \in S }

\* the orders a random comparator can leave n elements in
Perms(n) == { p \in [1..n -> 1..n] : \A a, b \in 1..n : a # b => p[a] # p[b] }

\* the rotations of 1..n and their reversals
Rotations(n) ==
    { [k \in 1..n |-> ((k - 1 + r) % n) + 1] : r \in 0..(n - 1) }
    \cup { [k \in 1..n |-> n - ((k - 1 + r) % n)] : r \in 0..(n - 1) }

\* the orders of n elements the draws of the model range over
Shuffles(n) == IF n <= MaxFullShuffle THEN Perms(n) ELSE Rotations(n)

\* [...s].sort(() => 0.5 - Math.random()), the order drawn being p
Shuffle(s, p) == [k \in 1..Len(s) |-> s[p[k]]]

-----------------------------------------------------------------------------
(* Server directory *)

getVeoProxyUrl(host, selected) ==
    IF host = "localhost" THEN "http://localhost:3001"
    ELSE IF selected # "" THEN selected
    ELSE "https://veox.monoklix.com"

\* a slip: imagen reads a key of its own, which nothing sets
getImagenProxyUrlOwnKey(host, selected) ==
    IF host = "localhost" THEN "http://localhost:3001"
    ELSE "https://gemx.monoklix.com"

getImagenProxyUrl(host, selected) ==
    IF host = "localhost" THEN "http://localhost:3001"
    ELSE IF selected # "" THEN selected
    ELSE "https://gemx.monoklix.com"

\* serviceType === 'veo' ? getVeoProxyUrl() : getImagenProxyUrl()
ResolveServerUrl(service, host, selected) ==
    IF service = "veo" THEN getVeoProxyUrl(host, selected)
    ELSE getImagenProxyUrl(host, selected)

currentServerUrl == ResolveServerUrl(serviceType, hostname, selectedProxyServer)

\* a slip: the filter is left out
otherServersAll(v, cur) == FALLBACK_SERVERS

\* FALLBACK_SERVERS.filter(...): the servers that are not the current one
otherServers(v, cur) ==
    IF v = "apiClient"
    THEN LET Keep(s) == ~UrlIncludes(cur, s) IN SelectSeq(FALLBACK_SERVERS, Keep)
    ELSE LET Keep(s) == s # cur IN SelectSeq(FALLBACK_SERVERS, Keep)

\* how many backup servers phase 2 draws
BackupServerCount(v) == IF v = "part_002" THEN 2 ELSE 1

\* The backup servers the random draw can give: one server of otherServers
\* (apiClient.ts), the first two of a random order of otherServers
\* (part_002), none (part_001 has no second phase).
BackupChoices(v, cur, canDraw) ==
    LET Keep(s) == s \in canDraw
        others == SelectSeq(otherServers(v, cur), Keep)
        n == Len(others)
    IN  IF v = "part_001" \/ n = 0 THEN { <<>> }
        ELSE IF BackupServerCount(v) = 1 \/ n = 1 THEN { <<others[a]>> : a \in 1..n }
        ELSE { <<others[ab[1]], others[ab[2]]>> :
                 ab \in { xy \in (1..n) \X (1..n) : xy[1] # xy[2] } }

-----------------------------------------------------------------------------
(* Credential store *)

\* getPersonalToken(): the token, or null; a parse error is caught
getPersonalToken(userJson) ==
    IF userJson.json = "object" THEN userJson.personalAuthToken ELSE NoToken

\* an element of the stored array that is JSON null
NullEntry == [token |-> [pre |-> "", suf |-> ""], createdAt |-> 0, isNull |-> TRUE]

\* the comparator of the sort reads createdAt of a null element: it is
\* called as soon as the array has two elements
SortThrows(s) == Len(s) >= 2 /\ \E k \in 1..Len(s) : s[k] = NullEntry

\* parsed.sort((a, b) => b.createdAt - a.createdAt): stable, newest first
RECURSIVE SortNewestFirst(_)
SortNewestFirst(s) ==
    IF s = <<>> THEN <<>>
    ELSE LET sorted == SortNewestFirst(SubSeq(s, 1, Len(s) - 1))
             e == s[Len(s)]
             before == { k \in 1..Len(sorted) : sorted[k].createdAt >= e.createdAt }
             cut == IF before = {} THEN 0
                    ELSE CHOOSE k \in before : \A m \in before : m <= k
         IN  SubSeq(sorted, 1, cut) \o <<e>> \o SubSeq(sorted, cut + 1, Len(sorted))

\* getSharedTokensFromSession(): the parsed array (sorted, but in part_001),
\* or [] when there is no array or the try block throws
getSharedTokensFromSession(v, tokens) ==
    IF tokens.json # "array" THEN <<>>
    ELSE IF v = "part_001" THEN tokens.entries
    ELSE IF SortThrows(tokens.entries) THEN <<>>
    ELSE SortNewestFirst(tokens.entries)

-----------------------------------------------------------------------------
(* Attempt plan *)

Attempt(token, serverUrl, source) ==
    [token |-> token, serverUrl |-> serverUrl, source |-> source]

\* `${attempt.token.slice(-6)}@${attempt.serverUrl}`
AttemptKey(attempt) == <<Slice6(attempt.token), attempt.serverUrl>>

\* addAttempt of part_002: usedAttempts holds the keys of the plan
addAttempt(plan, attempt) ==
    IF \E k \in 1..Len(plan) : AttemptKey(plan[k]) = AttemptKey(attempt)
    THEN plan
    ELSE Append(plan, attempt)

\* tokens.forEach(t => addAttempt({token: t.token, serverUrl, source}))
RECURSIVE addEach(_, _, _, _)
addEach(plan, tokens, serverUrl, source) ==
    IF tokens = <<>> THEN plan
    ELSE addEach(addAttempt(plan, Attempt(tokens[1].token, serverUrl, source)),
                 Tail(tokens), serverUrl, source)

\* tokens.forEach(t => { if (personal?.token !== t.token) attempts.push(...) })
RECURSIVE pushEach(_, _, _, _)
pushEach(plan, tokens, personal, serverUrl) ==
    IF tokens = <<>> THEN plan
    ELSE pushEach(IF personal # tokens[1].token
                  THEN Append(plan, Attempt(tokens[1].token, serverUrl, "Pool"))
                  ELSE plan,
                  Tail(tokens), personal, serverUrl)

\* a slip in the cap: every source file takes ten
ActivePoolSizeTen(v) == 5 + 5

\* how many of the newest pool tokens are eligible
ActivePoolSize(v) == IF v = "part_002" THEN 10 ELSE 5

\* a slip in the cap: five pool tokens on every backup server
BackupPoolSizeFive(v) == 3 + 2

\* how many pool tokens are retried on a backup server
BackupPoolSize(v) == IF v = "part_002" THEN 3 ELSE 2

\* a slip in the bound of the fallbacks: one more
StrictFallbackSizeSix == 5 + 1

\* how many pool fallbacks a strict call of part_002 gets
StrictFallbackSize == 5

\* the pool tokens a robust call draws from, before the shuffle
EligiblePool(v, pool) ==
    IF v = "part_001" THEN pool ELSE Slice(pool, ActivePoolSize(v))

\* the pool tokens in the order the random comparator left them
ShuffledPool(v, pool, perm) ==
    IF v = "part_001" THEN Slice(Shuffle(pool, perm), ActivePoolSize(v))
    ELSE Shuffle(EligiblePool(v, pool), perm)

\* SCENARIO A of src/services/apiClient.ts and case A of part_001
StrictPlanSingle(specific, cur) == << Attempt(specific, cur, "Specific") >>

\* SCENARIO A of part_002
StrictPlanFallback(specific, isHealthCheck, pool, cur) ==
    LET first == addAttempt(<<>>, Attempt(specific, cur, "Specific"))
    IN  IF isHealthCheck THEN first
        ELSE addEach(first, Slice(pool, StrictFallbackSize), cur, "Pool")

\* SCENARIO B of src/services/apiClient.ts
RobustPlanApiClient(personal, shuffled, backups, cur) ==
    LET p1 == IF personal # NoToken THEN << Attempt(personal, cur, "Personal") >> ELSE <<>>
        phase1 == pushEach(p1, shuffled, personal, cur)
    IN  IF backups = <<>> THEN phase1
        ELSE LET backupServer == backups[1]
                 p2 == IF personal # NoToken
                       THEN Append(phase1, Attempt(personal, backupServer, "Personal"))
                       ELSE phase1
             IN  pushEach(p2, Slice(shuffled, BackupPoolSize("apiClient")), personal, backupServer)

\* case B of part_001: the pool first, the personal token as last fallback
RobustPlanPart001(personal, shuffled, cur) ==
    LET pooled == [k \in 1..Len(shuffled) |-> Attempt(shuffled[k].token, cur, "Pool")]
    IN  IF personal # NoToken /\ ~\E k \in 1..Len(pooled) : pooled[k].token = personal
        THEN Append(pooled, Attempt(personal, cur, "Personal"))
        ELSE pooled

\* a slip in phase 2: the attempts on the first backup server are put at
\* the front of the plan (unshift for push)
addBackupsUnshift(plan, backups, personal, shuffled) ==
    IF backups = <<>> THEN plan
    ELSE LET p2 == IF personal # NoToken
                   THEN << Attempt(personal, backups[1], "Personal") >>
                   ELSE <<>>
         IN  addEach(p2, Slice(shuffled, BackupPoolSize("part_002")), backups[1], "Pool")
                 \o plan

\* backupServers.forEach(backupServer => {...}) of part_002
RECURSIVE addBackups(_, _, _, _)
addBackups(plan, backups, personal, shuffled) ==
    IF backups = <<>> THEN plan
    ELSE LET p2 == IF personal # NoToken
                   THEN addAttempt(plan, Attempt(personal, backups[1], "Personal"))
                   ELSE plan
         IN  addBackups(addEach(p2, Slice(shuffled, BackupPoolSize("part_002")), backups[1], "Pool"),
                        Tail(backups), personal, shuffled)

\* a slip in phase 1: the pool is added before the personal token
RobustPlanPart002PoolFirst(personal, shuffled, backups, cur) ==
    LET p1 == addEach(<<>>, shuffled, cur, "Pool")
        phase1 == IF personal # NoToken
                  THEN addAttempt(p1, Attempt(personal, cur, "Personal"))
                  ELSE p1
    IN  addBackups(phase1, backups, personal, shuffled)

\* SCENARIO B of part_002
RobustPlanPart002(personal, shuffled, backups, cur) ==
    LET p1 == IF personal # NoToken
              THEN addAttempt(<<>>, Attempt(personal, cur, "Personal"))
              ELSE <<>>
        phase1 == addEach(p1, shuffled, cur, "Pool")
    IN  addBackups(phase1, backups, personal, shuffled)

\* Step 2 of executeProxiedRequest: the attempt plan, the random draws being
\* perm (the shuffle) and backups (the backup servers).
BuildAttempts(v, specific, isHealthCheck, personalStored, poolStored, cur, perm, backups) ==
    LET personal == getPersonalToken(personalStored)
        pool == getSharedTokensFromSession(v, poolStored)
    IN  IF specific # NoToken
        THEN IF v = "part_002" THEN StrictPlanFallback(specific, isHealthCheck, pool, cur)
             ELSE StrictPlanSingle(specific, cur)
        ELSE LET shuffled == ShuffledPool(v, pool, perm)
             IN  CASE v = "apiClient" -> RobustPlanApiClient(personal, shuffled, backups, cur)
                   [] v = "part_001"  -> RobustPlanPart001(personal, shuffled, cur)
                   [] OTHER           -> RobustPlanPart002(personal, shuffled, backups, cur)

\* The pool entries whose token the plan building reads.
TokensRead(v, specific, isHealthCheck, poolStored, perm) ==
    LET pool == getSharedTokensFromSession(v, poolStored)
    IN  IF specific # NoToken
        THEN IF v = "part_002" /\ ~isHealthCheck THEN Slice(pool, StrictFallbackSize)
             ELSE <<>>
        ELSE ShuffledPool(v, pool, perm)

\* t.token of a null element: the plan building throws a TypeError
PlanThrows(v, specific, isHealthCheck, poolStored, perm) ==
    LET read == TokensRead(v, specific, isHealthCheck, poolStored, perm)
    IN  \E k \in 1..Len(read) : read[k] = NullEntry

\* the random draws one call makes while it builds its plan
RandomDraws(v, specific, poolStored, cur, canDraw) ==
    IF specific # NoToken
    THEN { [perm |-> <<>>, backups |-> <<>>] }
    ELSE { [perm |-> p, backups |-> b] :
             p \in Shuffles(Len(EligiblePool(v, getSharedTokensFromSession(v, poolStored)))),
             b \in BackupChoices(v, cur, canDraw) }

-----------------------------------------------------------------------------
(* Messages and responses *)

\* A message is the sequence of its words; '' and undefined are <<>>.
NoMessage == <<>>

LowerWord(w) ==
    CASE w = "Safety"  -> "safety"
      [] w = "SAFETY"  -> "safety"
      [] w = "BLOCKED" -> "blocked"
      [] w = "Blocked" -> "blocked"
      [] w = "Invalid" -> "invalid"
      [] w = "Quota"   -> "quota"
      [] w = "Limit"   -> "limit"
      [] w = "Request" -> "request"
      [] w = "Failed"  -> "failed"
      [] w = "API"     -> "api"
      [] w = "Proxy"   -> "proxy"
      [] w = "non-JSON" -> "non-json"
      [] w = "No"      -> "no"
      [] w = "Please"  -> "please"
      [] w = "Settings." -> "settings."
      [] w = "Unknown" -> "unknown"
      [] OTHER         -> w

\* msg.toLowerCase()
toLowerCase(msg) == [k \in 1..Len(msg) |-> LowerWord(msg[k])]

\* msg.includes(needle), needle being one word
Includes(msg, needle) == \E k \in 1..Len(msg) : msg[k] = needle

\* `${status}`
StatusText(status) == ToString(status)

\* the error texts a server sends
ServerMessages ==
    { <<"Invalid", "prompt">>,
      <<"Quota", "exceeded">>,
      <<"Limit", "of", "400", "requests">>,
      <<"Safety", "filter">>,
      <<"Request", "BLOCKED">> }

\* A response to fetch: the HTTP status and what the body holds. json says
\* whether the body parses as JSON; errorMessage is data.error.message,
\* message is data.message, hasResult says whether the result is there.
Response(status, json, errorMessage, message, hasResult) ==
    [net |-> "answer", status |-> status, json |-> json,
     errorMessage |-> errorMessage, message |-> message, hasResult |-> hasResult]

\* fetch (or response.text()) rejects: a connection error, a timeout
TransportFailure ==
    [net |-> "failure", status |-> 0, json |-> FALSE,
     errorMessage |-> NoMessage, message |-> NoMessage, hasResult |-> FALSE]

\* no fetch has been answered yet
NoResponse ==
    [net |-> "none", status |-> 0, json |-> FALSE,
     errorMessage |-> NoMessage, message |-> NoMessage, hasResult |-> FALSE]

\* the message of the TypeError a failed fetch rejects with
FetchFailedMessage == <<"Failed", "to", "fetch">>

ErrorStatuses == {400, 429, 500}

\* The answers of the stubbed transport: every 2xx body, every error text
\* and the two bodies without one under 400, 429 and 500, a 401, a 429
\* whose text is in data.message, and the transport failure.
Responses ==
    { Response(200, TRUE, NoMessage, NoMessage, TRUE),
      Response(200, TRUE, NoMessage, NoMessage, FALSE),
      Response(200, FALSE, NoMessage, NoMessage, FALSE) }
    \cup { Response(st, TRUE, m, NoMessage, FALSE) : st \in ErrorStatuses, m \in ServerMessages }
    \cup { Response(st, TRUE, NoMessage, NoMessage, FALSE) : st \in ErrorStatuses }
    \cup { Response(st, FALSE, NoMessage, NoMessage, FALSE) : st \in ErrorStatuses }
    \cup { Response(401, TRUE, <<"Token", "expired">>, NoMessage, FALSE),
           Response(429, TRUE, NoMessage, <<"Quota", "exceeded">>, FALSE),
           TransportFailure }

\* a slip in response.ok: 200 itself is left out
ResponseOkAbove200(status) == status > 200 /\ status <= 299

\* response.ok
ResponseOk(status) == status >= 200 /\ status <= 299

\* a slip: the synthesized message leaves the status out
ParseBodyNoStatus(v, r) ==
    IF r.json
    THEN [errorMessage |-> r.errorMessage, message |-> r.message,
          hasResult |-> r.hasResult, synthesized |-> FALSE]
    ELSE [errorMessage |-> <<"Proxy", "returned", "non-JSON">>,
          message |-> NoMessage, hasResult |-> FALSE, synthesized |-> TRUE]

\* data = JSON.parse(textResponse), or the synthesized error payload
ParseBody(v, r) ==
    IF r.json
    THEN [errorMessage |-> r.errorMessage, message |-> r.message,
          hasResult |-> r.hasResult, synthesized |-> FALSE]
    ELSE [errorMessage |->
              IF v = "part_001"
              THEN <<"Proxy", "returned", "non-JSON", StatusText(r.status), "<html>">>
              ELSE <<"Proxy", "returned", "non-JSON", StatusText(r.status)>>,
          message |-> NoMessage, hasResult |-> FALSE, synthesized |-> TRUE]

NoData ==
    [errorMessage |-> NoMessage, message |-> NoMessage,
     hasResult |-> FALSE, synthesized |-> FALSE]

\* data.error?.message || data.message || `API call failed (${status})`
ErrorMessageOf(data, status) ==
    IF data.errorMessage # NoMessage THEN data.errorMessage
    ELSE IF data.message # NoMessage THEN data.message
    ELSE <<"API", "call", "failed", StatusText(status)>>

-----------------------------------------------------------------------------
(* One iteration of the attempt loop *)

\* a slip in the stop condition: every 4xx status stops, not only 400
IsNonRetriableAny4xx(v, status, errorMessage) ==
    IF v = "part_001" THEN status >= 400 /\ status <= 499
    ELSE \/ status >= 400 /\ status <= 499
         \/ Includes(toLowerCase(errorMessage), "safety")
         \/ Includes(toLowerCase(errorMessage), "blocked")

\* the stop condition of the !response.ok branch
IsNonRetriable(v, status, errorMessage) ==
    IF v = "part_001" THEN status = 400
    ELSE \/ status = 400
         \/ Includes(toLowerCase(errorMessage), "safety")
         \/ Includes(toLowerCase(errorMessage), "blocked")

\* a slip in the catch handler: "failed" is taken for a stop word too
CatchRethrowsFailed(errMsg) ==
    \/ Includes(errMsg, "400")
    \/ Includes(toLowerCase(errMsg), "safety")
    \/ Includes(toLowerCase(errMsg), "failed")

\* the re-throw condition of the catch handler
CatchRethrows(errMsg) ==
    Includes(errMsg, "400") \/ Includes(toLowerCase(errMsg), "safety")

\* whether the exhausted call writes its failure record
LogsFailure(v, specific) ==
    IF v = "part_001" THEN TRUE ELSE specific = NoToken

\* The catch handler, for an error with message errMsg: what the iteration
\* does next, the new lastError and the log entries written.
CatchHandler(v, specific, errMsg, isLastAttempt) ==
    IF CatchRethrows(errMsg)
    THEN [act |-> "throw", lastError |-> errMsg, logged |-> 0, data |-> NoData]
    ELSE IF isLastAttempt
    THEN [act |-> "throw", lastError |-> errMsg,
          logged |-> IF LogsFailure(v, specific) THEN 1 ELSE 0, data |-> NoData]
    ELSE [act |-> "next", lastError |-> errMsg, logged |-> 0, data |-> NoData]

\* The try block, from the answer of fetch on, for the response r.
TryAttempt(v, specific, r, isLastAttempt, prevError) ==
    IF r.net = "failure"
    THEN CatchHandler(v, specific, FetchFailedMessage, isLastAttempt)
    ELSE LET data == ParseBody(v, r)
         IN  IF ~ResponseOk(r.status)
             THEN LET errorMessage == ErrorMessageOf(data, r.status)
                  IN  IF IsNonRetriable(v, r.status, errorMessage)
                      THEN CatchHandler(v, specific, errorMessage, isLastAttempt)
                      ELSE IF isLastAttempt
                      THEN CatchHandler(v, specific, errorMessage, isLastAttempt)
                      ELSE [act |-> "next", lastError |-> prevError, logged |-> 0,
                            data |-> NoData]
             ELSE [act |-> "return", lastError |-> prevError, logged |-> 0, data |-> data]

\* The error message the dispatcher reads from the response r.
MessageOfResponse(v, r) == ErrorMessageOf(ParseBody(v, r), r.status)

\* msg carries the "safety" or the "blocked" marker, in any letter case
HasMarker(msg) ==
    Includes(toLowerCase(msg), "safety") \/ Includes(toLowerCase(msg), "blocked")

\* The retry class (429 quota, 401 expired token, 5xx server error, fetch
\* error): a transport failure, or HTTP 401, 429 or 5xx whose message
\* carries no stop marker.
RetryableFailure(v, r) ==
    \/ r.net = "failure"
    \/ /\ r.net = "answer"
       /\ r.status \in {401, 429} \/ (r.status >= 500 /\ r.status <= 599)
       /\ ~HasMarker(MessageOfResponse(v, r))

-----------------------------------------------------------------------------
(* The call *)

UnknownError == <<"Unknown", "error">>

\* the message of the TypeError a property read of null throws
NullReadMessage == <<"Cannot", "read", "properties", "of", "null">>

\* localStorage 'currentUser' and sessionStorage 'veoAuthTokens' as read
StoredUser == [json |-> currentUser, personalAuthToken |-> personalAuthToken]

StoredTokens == [json |-> tokensJSON, entries |-> veoAuthTokens]

\* the precondition error of each source file
NoTokensMessage(v) ==
    IF v = "part_001"
    THEN <<"No", "authentication", "tokens", "available.">>
    ELSE <<"No", "authentication", "tokens", "found.">>

\* the error a rejected supabase.rpc call throws
RpcRejectedMessage == <<"rpc", "rejected">>

Pending ==
    [kind |-> "pending", message |-> NoMessage, data |-> NoData, successfulToken |-> NoToken]

Success(data, token) ==
    [kind |-> "success", message |-> NoMessage, data |-> data, successfulToken |-> token]

Failure(message) ==
    [kind |-> "error", message |-> message, data |-> NoData, successfulToken |-> NoToken]

\* a slip in the labels looked for: a health check asks for a slot too
isGenerationRequestOrCheck(ctx) ==
    \/ ContextIncludes(ctx, "GENERATE")
    \/ ContextIncludes(ctx, "RECIPE")
    \/ ContextIncludes(ctx, "HEALTH CHECK")

isGenerationRequest(ctx) ==
    ContextIncludes(ctx, "GENERATE") \/ ContextIncludes(ctx, "RECIPE")

\* a slip in the label looked for: no context carries it
isHealthCheckNoSpace(ctx) == ContextIncludes(ctx, "HEALTHCHECK")

isHealthCheck(ctx) == ContextIncludes(ctx, "HEALTH CHECK")

\* a slip in the bound of the slot loop: i <= 3
SlotTriesOneMore == 3 + 1

\* how many times part_001 asks for a slot
SlotTries == 3

\* a slip in the precondition: the empty plan is not seen
NoAttemptsBelowZero(plan) == Len(plan) < 0

\* a slip in the precondition: a plan of one entry is taken for empty
NoAttemptsAtMostOne(plan) == Len(plan) <= 1

\* attempts.length === 0
NoAttempts(plan) == Len(plan) = 0

\* the answers of supabase.rpc('request_generation_slot')
SlotOutcomes == {"granted", "denied", "error", "rejects"}

\* onStatusUpdate when a generation-class call starts to ask for its slot
QueueingStatus(v) ==
    IF v = "part_001" THEN "All slots are in use. You are in the queue..."
    ELSE "Queueing..."

\* onStatusUpdate(`Queue position ${i+1}... waiting...`) of part_001, n
\* being the number of slot requests made
WaitingStatus(n) ==
    CASE n = 1 -> "Queue position 1... waiting..."
      [] n = 2 -> "Queue position 2... waiting..."
      [] OTHER -> "Queue position 3... waiting..."

\* onStatusUpdate when admission is over
ProcessingStatus == "Processing..."

\* a slip: every source file reports the attempts to the status callback
AttemptStatusEveryVariant(v, attempt) ==
    CASE attempt.source = "Personal" -> << "Trying Personal Key..." >>
      [] attempt.source = "Pool"     -> << "Optimizing connection..." >>
      [] OTHER                       -> <<>>

\* what onStatusUpdate receives when the attempt is about to be sent
AttemptStatus(v, attempt) ==
    IF v # "apiClient" THEN <<>>
    ELSE CASE attempt.source = "Personal" -> << "Trying Personal Key..." >>
           [] attempt.source = "Pool"     -> << "Optimizing connection..." >>
           [] OTHER                       -> <<>>

\* The request of an attempt: the bearer token and the server of the
\* endpoint. part_001 reads the server again when it sends.
Request(v, attempt, service, host, selected) ==
    [token |-> attempt.token,
     serverUrl |-> IF v = "part_001" THEN ResolveServerUrl(service, host, selected)
                   ELSE attempt.serverUrl]

\* a slip: the fetch is not awaited, the loop goes on while it is in flight
AwaitFetchNot(n) == n

\* const response = await fetch(...): the loop resumes when the fetch has
\* settled; n fetches were in flight
AwaitFetch(n) == n - 1

\* Steps 2 and 3 up to the first await: build the plan, throw when it is
\* empty, else enter the loop and issue the fetch of the first attempt. st
\* is what the status callback has received so far.
BuildAndSend(st) ==
    \E d \in RandomDraws(variant, specificToken, StoredTokens, currentServerUrl, drawable) :
      \E plan \in { IF PlanThrows(variant, specificToken, isHealthCheck(logContext),
                                  StoredTokens, d.perm)
                    THEN <<>>
                    ELSE BuildAttempts(variant, specificToken, isHealthCheck(logContext),
                                       StoredUser, StoredTokens, currentServerUrl,
                                       d.perm, d.backups) } :
            /\ attempts' = plan
            /\ lastError' = IF NoAttempts(plan) THEN lastError ELSE UnknownError
            /\ IF PlanThrows(variant, specificToken, isHealthCheck(logContext),
                             StoredTokens, d.perm)
               THEN \* the TypeError leaves executeProxiedRequest
                    /\ pc' = "done"
                    /\ outcome' = Failure(NullReadMessage)
                    /\ statuses' = st
                    /\ UNCHANGED <<i, netCalls, sent, inFlight>>
               ELSE IF NoAttempts(plan)
               THEN /\ pc' = "done"
                    /\ outcome' = Failure(NoTokensMessage(variant))
                    /\ statuses' = st
                    /\ UNCHANGED <<i, netCalls, sent, inFlight>>
               ELSE IF Len(plan) = 0
               THEN \* the loop has nothing to run: throw lastError
                    /\ pc' = "done"
                    /\ outcome' = Failure(UnknownError)
                    /\ statuses' = st
                    /\ UNCHANGED <<i, netCalls, sent, inFlight>>
               ELSE /\ pc' = "fetch"
                    /\ i' = 1
                    /\ statuses' = st \o AttemptStatus(variant, plan[1])
                    /\ netCalls' = netCalls + 1
                    /\ sent' = Append(sent, Request(variant, plan[1], serviceType,
                                                    hostname, selectedProxyServer))
                    /\ inFlight' = inFlight + 1
                    /\ UNCHANGED outcome

\* a slip: the server of a successful backup attempt is stored as the
\* user's preference
PreferredAfterSuccessBackup(selected, attempt) == attempt.serverUrl

\* 'If we successfully used a backup server, maybe we should silently update
\* the user's preference? For now, let's just return the success.'
PreferredAfterSuccess(selected, attempt) == selected

\* the locals of the call that is running
Running ==
    [logContext |-> logContext, serviceType |-> serviceType,
     specificToken |-> specificToken, pc |-> pc, slotAnswers |-> slotAnswers,
     slotRequests |-> slotRequests, waits |-> waits, attempts |-> attempts,
     i |-> i, netCalls |-> netCalls, sent |-> sent, inFlight |-> inFlight,
     statuses |-> statuses, lastResponse |-> lastResponse, lastError |-> lastError,
     outcome |-> outcome, priorRetryable |-> priorRetryable, prior429 |-> prior429,
     received |-> received]

\* the locals of a call that has not started, for the call c of the application
FreshCall(c) ==
    [logContext |-> c.logContext, serviceType |-> c.serviceType,
     specificToken |-> c.specificToken, pc |-> "start", slotAnswers |-> <<>>,
     slotRequests |-> 0, waits |-> 0, attempts |-> <<>>,
     i |-> 0, netCalls |-> 0, sent |-> <<>>, inFlight |-> 0,
     statuses |-> <<>>, lastResponse |-> NoResponse, lastError |-> UnknownError,
     outcome |-> Pending, priorRetryable |-> TRUE, prior429 |-> TRUE,
     received |-> <<>>]

\* no second call
NoCall ==
    [ FreshCall([logContext |-> "", serviceType |-> "", specificToken |-> NoToken])
        EXCEPT !.pc = "none" ]

\* a second call runs alongside
Concurrent == other.pc # "none"

\* the answers of the stubbed transport when two calls run
ConcResponses ==
    { Response(200, TRUE, NoMessage, NoMessage, TRUE),
      Response(500, TRUE, NoMessage, NoMessage, FALSE),
      Response(400, TRUE, <<"Safety", "filter">>, NoMessage, FALSE),
      TransportFailure }

\* the answers a fetch can get
Answers == IF Concurrent THEN ConcResponses ELSE Responses

params == <<variant, logContext, serviceType, specificToken, hostname,
            selectedProxyServer, drawable, currentUser, personalAuthToken,
            tokensJSON, veoAuthTokens, received, other, view>>

\* executeProxiedRequest is called and runs to its first await.
Begin ==
    /\ pc = "start"
    /\ IF isGenerationRequest(logContext)
       THEN /\ pc' = "slot"
            /\ statuses' = Append(statuses, QueueingStatus(variant))
            /\ slotRequests' = slotRequests + 1
            /\ UNCHANGED <<attempts, i, netCalls, sent, inFlight, lastError, outcome>>
       ELSE /\ BuildAndSend(statuses)
            /\ UNCHANGED slotRequests
    /\ UNCHANGED <<params, slotAnswers, waits, lastResponse, logEntries,
                   priorRetryable, prior429>>

\* supabase.rpc('request_generation_slot') settles with answer a.
SlotAnswer ==
    /\ pc = "slot"
    /\ \E a \in SlotOutcomes :
        /\ slotAnswers' = Append(slotAnswers, a)
        /\ IF a = "rejects"
           THEN /\ pc' = "done"
                /\ outcome' = Failure(RpcRejectedMessage)
                /\ UNCHANGED <<attempts, i, netCalls, sent, inFlight, statuses,
                               lastError, waits>>
           ELSE IF variant = "part_001" /\ a = "denied"
           THEN /\ pc' = "backoff"
                /\ statuses' = Append(statuses, WaitingStatus(slotRequests))
                /\ waits' = waits + 1
                /\ UNCHANGED <<attempts, i, netCalls, sent, inFlight, lastError, outcome>>
           ELSE /\ BuildAndSend(Append(statuses, ProcessingStatus))
                /\ UNCHANGED waits
    /\ UNCHANGED <<params, slotRequests, lastResponse, logEntries,
                   priorRetryable, prior429>>

\* The backoff sleep of part_001 ends: ask again, or go on after the last try.
BackoffElapsed ==
    /\ pc = "backoff"
    /\ IF slotRequests < SlotTries
       THEN /\ pc' = "slot"
            /\ slotRequests' = slotRequests + 1
            /\ UNCHANGED <<attempts, i, netCalls, sent, inFlight, statuses,
                           lastError, outcome>>
       ELSE /\ BuildAndSend(Append(statuses, ProcessingStatus))
            /\ UNCHANGED slotRequests
    /\ UNCHANGED <<params, slotAnswers, waits, lastResponse, logEntries,
                   priorRetryable, prior429>>

\* The fetch of attempt i settles with r: classify it, then return, throw,
\* or issue the fetch of attempt i + 1.
FetchAnswer ==
    /\ pc = "fetch"
    /\ \E r \in Answers :
        \E res \in { TryAttempt(variant, specificToken, r, i = Len(attempts), lastError) } :
            /\ lastResponse' = r
            /\ received' = IF Concurrent THEN Append(received, r) ELSE received
            /\ selectedProxyServer' =
                   IF res.act = "return"
                   THEN PreferredAfterSuccess(selectedProxyServer, attempts[i])
                   ELSE selectedProxyServer
            /\ priorRetryable' = (priorRetryable /\
                   (lastResponse.net = "none" \/ RetryableFailure(variant, lastResponse)))
            /\ prior429' = (prior429 /\
                   (lastResponse.net = "none" \/ lastResponse.status = 429))
            /\ lastError' = res.lastError
            /\ logEntries' = logEntries + res.logged
            /\ CASE res.act = "return" ->
                      /\ pc' = "done"
                      /\ outcome' = Success(res.data, attempts[i].token)
                      /\ inFlight' = AwaitFetch(inFlight)
                      /\ UNCHANGED <<i, netCalls, sent, statuses>>
                 [] res.act = "throw" ->
                      /\ pc' = "done"
                      /\ outcome' = Failure(res.lastError)
                      /\ inFlight' = AwaitFetch(inFlight)
                      /\ UNCHANGED <<i, netCalls, sent, statuses>>
                 [] OTHER ->
                      /\ pc' = "fetch"
                      /\ i' = i + 1
                      /\ statuses' = statuses \o AttemptStatus(variant, attempts[i + 1])
                      /\ netCalls' = netCalls + 1
                      /\ sent' = Append(sent, Request(variant, attempts[i + 1], serviceType,
                                                      hostname, selectedProxyServer))
                      /\ inFlight' = AwaitFetch(inFlight) + 1
                      /\ UNCHANGED outcome
    /\ UNCHANGED <<variant, logContext, serviceType, specificToken, hostname, drawable,
                   currentUser, personalAuthToken, tokensJSON, veoAuthTokens, other,
                   slotAnswers, slotRequests, waits, attempts, view>>

\* a slip: the plan is a variable of the module, shared by the calls
ResumeSharedPlan(c) == [c EXCEPT !.attempts = attempts]

\* the locals a suspended call finds when it resumes: its own
Resume(c) == c

\* The event loop runs the continuation of the other call: the running call
\* stays suspended at its await.
Switch ==
    /\ Concurrent
    /\ \E c \in { Resume(other) } :
          /\ logContext' = c.logContext
          /\ serviceType' = c.serviceType
          /\ specificToken' = c.specificToken
          /\ pc' = c.pc
          /\ slotAnswers' = c.slotAnswers
          /\ slotRequests' = c.slotRequests
          /\ waits' = c.waits
          /\ attempts' = c.attempts
          /\ i' = c.i
          /\ netCalls' = c.netCalls
          /\ sent' = c.sent
          /\ inFlight' = c.inFlight
          /\ statuses' = c.statuses
          /\ lastResponse' = c.lastResponse
          /\ lastError' = c.lastError
          /\ outcome' = c.outcome
          /\ priorRetryable' = c.priorRetryable
          /\ prior429' = c.prior429
          /\ received' = c.received
    /\ other' = Running
    /\ UNCHANGED <<variant, hostname, selectedProxyServer, drawable, currentUser,
                   personalAuthToken, tokensJSON, veoAuthTokens, logEntries, view>>

-----------------------------------------------------------------------------
(* UgcGenView *)

\* what the view never writes
dispatcher ==
    <<variant, logContext, serviceType, specificToken, hostname, selectedProxyServer,
      drawable, currentUser, personalAuthToken, tokensJSON, veoAuthTokens, pc,
      slotAnswers, slotRequests, waits, attempts, i, netCalls, sent, inFlight,
      statuses, lastResponse, lastError, logEntries, outcome, priorRetryable,
      prior429, received, other>>

\* Array.from({ length: 10 }, ...) of the view
SERVERS ==
    [k \in 1..10 |-> [name |-> "S" \o ToString(k),
                      url |-> "https://s" \o ToString(k) \o ".monoklix.com"]]

SLOTS == 0..5

Undefined == "undefined"

\* { status: 'idle', logs: [] }; logs is the number of its lines
IdleSlot ==
    [status |-> "idle", serverName |-> Undefined, imageUrl |-> Undefined,
     error |-> NoMessage, logs |-> 0]

\* The view as it mounts, with the prompt (is it non-blank) and the number of
\* reference images the user has entered, and the kinds of answer the
\* servers give to its fetches. timers are the slots whose
\* setTimeout of the batch is pending, promises the promises of the batch
\* not yet resolved, generations the calls of generateSingleSlot suspended at
\* an await, clicks the clicks made. History: epoch counts, for each slot,
\* the resets and the starts of a generation; writer is the epoch of what
\* wrote the slot's status last; settled is the status in which the
\* generation of the latest batch left the slot.
MountedView(prompt, images, answers) ==
    [prompt |-> prompt, referenceImages |-> images, answers |-> answers,
     isGenerating |-> FALSE,
     slots |-> [index \in SLOTS |-> IdleSlot],
     timers |-> {}, promises |-> 0, generations |-> {}, clicks |-> 0,
     epoch |-> [index \in SLOTS |-> 0],
     writer |-> [index \in SLOTS |-> 0],
     settled |-> [index \in SLOTS |-> "none"]]

\* setSlots(prev => { newSlots[index] = { ...newSlots[index], ...updates } })
updateSlot(v, index, updates) ==
    [v EXCEPT !.slots[index] =
        [f \in DOMAIN IdleSlot |-> IF f \in DOMAIN updates THEN updates[f] ELSE @[f]]]

addLog(v, index) == [v EXCEPT !.slots[index].logs = @ + 1]

handleResetSlot(v, index) ==
    updateSlot(v, index, [status |-> "idle", imageUrl |-> Undefined,
                          error |-> NoMessage, logs |-> 0])

\* SERVERS[Math.floor(Math.random() * SERVERS.length)]
getRandomServer(k) == SERVERS[k]

\* the servers the draw of getRandomServer ranges over
ServerDraws == { k \in DOMAIN SERVERS : SERVERS[k].url \in drawable }

\* getRandomToken, the draw landing on entry k: a store that is no array, an
\* empty array and a TypeError thrown on a null entry all end in userToken
getRandomToken(userToken, stored, k) ==
    IF /\ stored.json = "array"
       /\ Len(stored.entries) > 0
       /\ stored.entries[k] # NullEntry
    THEN stored.entries[k].token
    ELSE userToken

\* the entries the draw of getRandomToken ranges over
TokenDraws(stored) ==
    IF stored.json = "array" /\ Len(stored.entries) > 0
    THEN 1..Len(stored.entries)
    ELSE {1}

NoAuthTokenMessage == <<"No", "Auth", "Token", "Available">>

UploadFailedMessage == <<"Upload", "failed">>

GenerationFailedMessage == <<"Generation", "failed">>

NoImageMessage == <<"No", "image", "returned">>

\* a slip: the batch is over when the first of its promises resolves
resolveFirst(v) ==
    [v EXCEPT !.promises = @ - 1, !.isGenerating = FALSE]

\* resolve of one promise of the batch; when the last one resolves,
\* Promise.all resolves and the handler goes on to setIsGenerating(false)
resolve(v) ==
    [v EXCEPT !.promises = @ - 1,
              !.isGenerating = IF v.promises = 1 THEN FALSE ELSE @]

\* generateSingleSlot returns, the slot left in status: .then(resolve) runs
\* when the batch made the call
returned(v, gen, status) ==
    LET w == [v EXCEPT !.writer[gen.index] = gen.epoch,
                       !.settled[gen.index] = IF gen.batch THEN status ELSE @]
    IN  IF gen.batch THEN resolve(w) ELSE w

\* generateSingleSlot up to its first await, or to its return when there is
\* no token; batch tells whether handleGenerateBatch made the call
generateSingleSlot(v, index, server, token, batch) ==
    LET epoch == v.epoch[index] + 1
        gen == [index |-> index, epoch |-> epoch,
                uploads |-> v.referenceImages, batch |-> batch]
        loading ==
            addLog(updateSlot([v EXCEPT !.epoch[index] = epoch,
                                        !.writer[index] = epoch],
                              index,
                              [status |-> "loading", serverName |-> server.name,
                               error |-> NoMessage, imageUrl |-> Undefined,
                               logs |-> 0]),
                   index)
    IN  IF token = NoToken
        THEN returned(addLog(updateSlot(loading, index,
                                        [status |-> "failed",
                                         error |-> NoAuthTokenMessage]),
                             index),
                      gen, "failed")
        ELSE [addLog(addLog(loading, index), index)
                 EXCEPT !.generations = @ \cup {gen}]

\* what a fetch and the res.json() after it can end in: a 2xx with what the
\* view asked for, a 2xx without an image, a non-2xx, a rejected fetch
AnswerKinds == {"ok", "noimage", "http", "transport"}

\* the answers a generation can get at its await
ViewAnswers(v, gen) ==
    IF gen.uploads > 0 THEN v.answers \ {"noimage"} ELSE v.answers

\* generateSingleSlot from the answer to its fetch to its next await or to
\* its return
resumeSingleSlot(v, gen, answer) ==
    LET index == gen.index
        rest == [v EXCEPT !.generations = @ \ {gen}]
        caught(message) ==
            returned(updateSlot(addLog(rest, index), index,
                                [status |-> "failed", error |-> message]),
                     gen, "failed")
    IN  IF answer = "transport" THEN caught(FetchFailedMessage)
        ELSE IF gen.uploads > 0
        THEN IF answer = "http" THEN caught(UploadFailedMessage)
             ELSE [addLog(rest, index)
                      EXCEPT !.generations = @ \cup {[gen EXCEPT !.uploads = @ - 1]}]
        ELSE IF answer = "http" THEN caught(GenerationFailedMessage)
        ELSE IF answer = "ok"
        THEN returned(updateSlot(addLog(rest, index), index,
                                 [status |-> "success", imageUrl |-> "image"]),
                      gen, "success")
        ELSE caught(NoImageMessage)

\* the slots whose Reset and Re-create buttons the user clicks
ClickedSlots == { index \in SLOTS : index >= Cardinality(SLOTS) - MaxClickedSlots }

\* the Generate button is clicked; it is disabled while isGenerating and
\* without a prompt and a reference image
handleGenerateBatch ==
    /\ ~view.isGenerating
    /\ view.prompt \/ view.referenceImages > 0
    /\ view.clicks < MaxClicks
    /\ view' = [view EXCEPT
                  !.clicks = @ + 1,
                  !.isGenerating = TRUE,
                  !.slots = [index \in SLOTS |->
                                [@[index] EXCEPT !.status = "loading", !.logs = 1]],
                  !.timers = SLOTS,
                  !.promises = Cardinality(SLOTS),
                  !.epoch = [index \in SLOTS |-> @[index] + 1],
                  !.writer = [index \in SLOTS |-> view.epoch[index] + 1],
                  !.settled = [index \in SLOTS |-> "none"]]
    /\ UNCHANGED dispatcher

\* the setTimeout of the batch with the shortest delay left fires
Timeout ==
    /\ view.timers # {}
    /\ LET index == CHOOSE t \in view.timers : \A u \in view.timers : t <= u
       IN  \E s \in ServerDraws, k \in TokenDraws(StoredTokens) :
              view' = generateSingleSlot([view EXCEPT !.timers = @ \ {index}],
                                         index, getRandomServer(s),
                                         getRandomToken(personalAuthToken, StoredTokens, k),
                                         TRUE)
    /\ UNCHANGED dispatcher

\* the Re-create button of a slot is clicked; it is disabled while isGenerating
Recreate ==
    /\ ~view.isGenerating
    /\ view.clicks < MaxClicks
    /\ \E index \in ClickedSlots, s \in ServerDraws, k \in TokenDraws(StoredTokens) :
          view' = generateSingleSlot([view EXCEPT !.clicks = @ + 1],
                                     index, getRandomServer(s),
                                     getRandomToken(personalAuthToken, StoredTokens, k),
                                     FALSE)
    /\ UNCHANGED dispatcher

\* the Reset button of a slot is clicked
ResetSlot ==
    /\ view.clicks < MaxClicks
    /\ \E index \in ClickedSlots :
          view' = [handleResetSlot(view, index) EXCEPT
                      !.clicks = @ + 1,
                      !.epoch[index] = @ + 1,
                      !.writer[index] = view.epoch[index] + 1]
    /\ UNCHANGED dispatcher

\* a fetch of a generation in flight is answered
ViewFetchAnswer ==
    /\ \E gen \in view.generations :
          \E answer \in ViewAnswers(view, gen) :
             view' = resumeSingleSlot(view, gen, answer)
    /\ UNCHANGED dispatcher

-----------------------------------------------------------------------------
(* Specifications *)

PoolEntry(token, createdAt) == [token |-> token, createdAt |-> createdAt, isNull |-> FALSE]

\* both stores hold what the application writes to them
ValidStores == currentUser = "object" /\ tokensJSON = "array"

\* what a freshly called executeProxiedRequest has done: nothing
NotCalled ==
    /\ pc = "start"
    /\ slotAnswers = <<>>
    /\ slotRequests = 0
    /\ waits = 0
    /\ attempts = <<>>
    /\ i = 0
    /\ netCalls = 0
    /\ sent = <<>>
    /\ inFlight = 0
    /\ statuses = <<>>
    /\ lastResponse = NoResponse
    /\ lastError = UnknownError
    /\ logEntries = 0
    /\ outcome = Pending
    /\ priorRetryable = TRUE
    /\ prior429 = TRUE
    /\ received = <<>>

\* no call has run and the view is as it mounts: no prompt, no reference image
Fresh == NotCalled /\ view = MountedView(FALSE, 0, {})

\* the call runs alone
Alone == other = NoCall

\* the pool of a session as it fills up, oldest token first
StoredPool ==
    << PoolEntry(tokPoolA, 1), PoolEntry(tokPoolB, 2), PoolEntry(tokPoolA2, 3) >>

\* the pools of the dispatch specification
Pools == { Slice(StoredPool, n) : n \in 0..MaxPool }

Init ==
    /\ variant \in Variants
    /\ ValidStores
    /\ Alone
    /\ \E c \in DispatchCalls : logContext = c.logContext /\ serviceType = c.serviceType
    /\ specificToken \in {NoToken, tokSpecific}
    /\ hostname = "app.monoklix.com"
    /\ selectedProxyServer = ""
    /\ drawable = { FALLBACK_SERVERS[k] : k \in 1..Min(MaxDrawable, Len(FALLBACK_SERVERS)) }
    /\ personalAuthToken \in {NoToken, tokPersonal}
    /\ veoAuthTokens \in Pools
    /\ Fresh

Next == Begin \/ SlotAnswer \/ BackoffElapsed \/ FetchAnswer

Spec == Init /\ [][Next]_vars

\* the pools of the plan specification
PlanPools ==
    SeqsUpTo({ PoolEntry(tokPoolA, 1), PoolEntry(tokPoolB, 2),
               PoolEntry(tokPoolA2, 2), PoolEntry(tokPersonal, 1) }, MaxPlanPool)

\* where the application runs and which server the user selected
PlanSessions ==
    { [hostname |-> "app.monoklix.com", selected |-> ""],
      [hostname |-> "app.monoklix.com", selected |-> "https://s1.monoklix.com"],
      [hostname |-> "app.monoklix.com", selected |-> "https://s1.monoklix.com/"],
      [hostname |-> "localhost", selected |-> ""] }

PlanInit ==
    /\ variant \in Variants
    /\ ValidStores
    /\ Alone
    /\ \E c \in { k \in Calls : ~isGenerationRequest(k.logContext) } :
           logContext = c.logContext /\ serviceType = c.serviceType
    /\ specificToken \in {NoToken, tokSpecific}
    /\ \E e \in PlanSessions : hostname = e.hostname /\ selectedProxyServer = e.selected
    /\ drawable = { FALLBACK_SERVERS[k] : k \in 1..Len(FALLBACK_SERVERS) }
    /\ personalAuthToken \in {NoToken, tokPersonal}
    /\ veoAuthTokens \in PlanPools
    /\ Fresh

\* a call that needs no admission runs to its first fetch: the plan is built
PlanNext == Begin

PlanSpec == PlanInit /\ [][PlanNext]_vars

\* a long pool as it fills up, oldest token first
LongPool ==
    << PoolEntry(tokPoolA, 1), PoolEntry(tokPoolB, 2), PoolEntry(tokPoolA2, 3),
       PoolEntry(tokPoolC, 4), PoolEntry(tokPoolD, 5), PoolEntry(tokPoolE, 6),
       PoolEntry(tokPoolF, 7), PoolEntry(tokPoolG, 8) >>

\* the pools of the strict-plan specification
StrictPools == { Slice(LongPool, n) : n \in 0..MaxStrictPool }

\* strict calls of every kind, up to the first fetch
StrictInit ==
    /\ variant \in Variants
    /\ ValidStores
    /\ Alone
    /\ \E c \in Calls : logContext = c.logContext /\ serviceType = c.serviceType
    /\ specificToken = tokSpecific
    /\ \E e \in PlanSessions : hostname = e.hostname /\ selectedProxyServer = e.selected
    /\ drawable = { FALLBACK_SERVERS[k] : k \in 1..Len(FALLBACK_SERVERS) }
    /\ personalAuthToken \in {NoToken, tokPersonal}
    /\ veoAuthTokens \in StrictPools
    /\ Fresh

StrictNext == Begin \/ SlotAnswer \/ BackoffElapsed

StrictSpec == StrictInit /\ [][StrictNext]_vars

\* the k-th token issued to the session
tokIssued(k) == [pre |-> "ya29.n", suf |-> ToString(100000 + k)]

\* a pool of n tokens as it fills up, oldest token first
IssuedPool(n) == [k \in 1..n |-> PoolEntry(tokIssued(k), k)]

\* calls over pools longer than the eligibility caps, up to the first fetch
EligibleInit ==
    /\ variant \in Variants
    /\ ValidStores
    /\ Alone
    /\ \E c \in { k \in Calls : ~isGenerationRequest(k.logContext) } :
           logContext = c.logContext /\ serviceType = c.serviceType
    /\ specificToken \in {NoToken, tokSpecific}
    /\ hostname = "app.monoklix.com"
    /\ selectedProxyServer = ""
    /\ drawable = { FALLBACK_SERVERS[k] : k \in 1..Min(MaxDrawable, Len(FALLBACK_SERVERS)) }
    /\ personalAuthToken \in {NoToken, tokPersonal}
    /\ veoAuthTokens \in { IssuedPool(n) : n \in 0..MaxEligiblePool }
    /\ Fresh

EligibleNext == Begin

EligibleSpec == EligibleInit /\ [][EligibleNext]_vars

\* longest array stored in the session, store specification
MaxStorePool == 2

\* the arrays of the store specification: entries and null elements
StorePools ==
    SeqsUpTo({ PoolEntry(tokPoolA, 1), PoolEntry(tokPoolB, 2), NullEntry }, MaxStorePool)

\* calls over stores of every shape, up to the first fetch
StoreInit ==
    /\ variant \in Variants
    /\ \E c \in { k \in Calls : ~isGenerationRequest(k.logContext) } :
           logContext = c.logContext /\ serviceType = c.serviceType
    /\ specificToken \in {NoToken, tokSpecific}
    /\ hostname = "app.monoklix.com"
    /\ selectedProxyServer = ""
    /\ drawable = { FALLBACK_SERVERS[k] : k \in 1..Min(MaxDrawable, Len(FALLBACK_SERVERS)) }
    /\ Alone
    /\ currentUser \in {"object", "unparseable", "absent"}
    /\ personalAuthToken \in IF currentUser = "object" THEN {NoToken, tokPersonal} ELSE {NoToken}
    /\ tokensJSON \in {"array", "object", "unparseable", "absent"}
    /\ veoAuthTokens \in IF tokensJSON = "array" THEN StorePools ELSE { <<>> }
    /\ Fresh

StoreNext == Begin

StoreSpec == StoreInit /\ [][StoreNext]_vars

\* longest pool stored in the session, retry specification
MaxRetryPool == 2

\* the pools of the retry specification: the session was handed the same
\* token again and again
RetryPools == { [k \in 1..n |-> PoolEntry(tokPoolA, k)] : n \in 1..MaxRetryPool }

\* whole calls over a pool that repeats a token, no backup server drawable
RetryInit ==
    /\ variant \in Variants
    /\ ValidStores
    /\ Alone
    /\ \E c \in DispatchCalls : logContext = c.logContext /\ serviceType = c.serviceType
    /\ specificToken \in {NoToken, tokSpecific}
    /\ hostname = "app.monoklix.com"
    /\ selectedProxyServer = ""
    /\ drawable = {}
    /\ personalAuthToken = NoToken
    /\ veoAuthTokens \in RetryPools
    /\ Fresh

RetrySpec == RetryInit /\ [][Next]_vars

\* the servers the user selects ("" clears the selection)
UserSelections == { "", "https://s1.monoklix.com" }

\* the pools the session is given while the application runs
SessionPools == { <<>>, << PoolEntry(tokPoolA, 1) >> }

\* Code of the application outside executeProxiedRequest writes to the
\* stores: the user selects a server or clears the selection, the session
\* is given its pool, the user's personal token is set or removed.
StoreChange ==
    /\ \/ /\ selectedProxyServer' \in UserSelections \ { selectedProxyServer }
          /\ UNCHANGED <<personalAuthToken, veoAuthTokens>>
       \/ /\ veoAuthTokens' \in SessionPools \ { veoAuthTokens }
          /\ UNCHANGED <<selectedProxyServer, personalAuthToken>>
       \/ /\ personalAuthToken' \in {NoToken, tokPersonal} \ { personalAuthToken }
          /\ UNCHANGED <<selectedProxyServer, veoAuthTokens>>
    /\ UNCHANGED <<variant, logContext, serviceType, specificToken, hostname, drawable,
                   currentUser, tokensJSON, pc, slotAnswers, slotRequests, waits,
                   attempts, i, netCalls, sent, inFlight, statuses, lastResponse,
                   lastError, logEntries, outcome, priorRetryable, prior429,
                   received, other, view>>

\* whole calls while the stores change, no backup server drawable
MutableInit ==
    /\ variant \in Variants
    /\ ValidStores
    /\ Alone
    /\ \E c \in DispatchCalls : logContext = c.logContext /\ serviceType = c.serviceType
    /\ specificToken \in {NoToken, tokSpecific}
    /\ hostname \in {"app.monoklix.com", "localhost"}
    /\ selectedProxyServer = ""
    /\ drawable = {}
    /\ personalAuthToken = tokPersonal
    /\ veoAuthTokens = << PoolEntry(tokPoolA, 1) >>
    /\ Fresh

MutableNext == Next \/ StoreChange

MutableSpec == MutableInit /\ [][MutableNext]_vars

\* the calls that run side by side
ConcCalls ==
    { [logContext |-> "VEO HEALTH CHECK", serviceType |-> "veo", specificToken |-> NoToken],
      [logContext |-> "IMAGEN RECIPE", serviceType |-> "imagen", specificToken |-> NoToken],
      [logContext |-> "VEO HEALTH CHECK", serviceType |-> "veo", specificToken |-> tokSpecific] }

\* two calls of executeProxiedRequest over one store, one backup server drawable
ConcInit ==
    /\ variant \in Variants
    /\ ValidStores
    /\ \E c \in ConcCalls :
          /\ logContext = c.logContext
          /\ serviceType = c.serviceType
          /\ specificToken = c.specificToken
    /\ other \in { FreshCall(c) : c \in ConcCalls }
    /\ hostname = "app.monoklix.com"
    /\ selectedProxyServer = ""
    /\ drawable = { FALLBACK_SERVERS[1] }
    /\ personalAuthToken = NoToken
    /\ veoAuthTokens = << PoolEntry(tokPoolA, 1) >>
    /\ Fresh

ConcNext == Next \/ Switch

ConcSpec == ConcInit /\ [][ConcNext]_vars

\* every await of the call settles: the admission answer, the sleep, the fetch
FairRetrySpec == RetrySpec /\ WF_vars(Next)

\* what the stores hold when the view draws a token: the user's own token
\* and no pool, or no token of the user and a pool with a null entry, on
\* which the draw can land
ViewStores ==
    { [personal |-> tokPersonal, entries |-> <<>>],
      [personal |-> NoToken, entries |-> << NullEntry, PoolEntry(tokPoolA, 1) >>] }

\* no call of executeProxiedRequest runs beside the view, and one server is
\* drawable
ViewOpened ==
    /\ variant = "apiClient"
    /\ ValidStores
    /\ Alone
    /\ logContext = "VEO GENERATE" /\ serviceType = "veo"
    /\ specificToken = NoToken
    /\ hostname = "app.monoklix.com" /\ selectedProxyServer = ""
    /\ drawable = { SERVERS[1].url }
    /\ NotCalled

\* the view with what the user entered before the first click
ViewInit ==
    /\ ViewOpened
    /\ \E st \in ViewStores :
           personalAuthToken = st.personal /\ veoAuthTokens = st.entries
    /\ \E prompt \in BOOLEAN, images \in 0..Min(MaxReferenceImages, 2),
          answers \in SUBSET AnswerKinds :
           /\ Cardinality(answers) = Min(MaxAnswerKinds, Cardinality(AnswerKinds))
           /\ view = MountedView(prompt, images, answers)

ViewNext == handleGenerateBatch \/ Timeout \/ Recreate \/ ResetSlot \/ ViewFetchAnswer

ViewSpec == ViewInit /\ [][ViewNext]_vars

\* the view with a prompt, over a store in which each draw of a token can
\* come out with or without one, the servers answering with an image, an
\* HTTP failure or a rejected fetch
BatchInit ==
    /\ ViewOpened
    /\ personalAuthToken = NoToken
    /\ veoAuthTokens = << NullEntry, PoolEntry(tokPoolA, 1) >>
    /\ \E images \in 0..Min(MaxReferenceImages, 2) :
           view = MountedView(TRUE, images, {"ok", "http", "transport"})

BatchSpec == BatchInit /\ [][ViewNext]_vars

\* timers fire and every fetch is answered
FairBatchSpec == BatchSpec /\ WF_vars(Timeout) /\ WF_vars(ViewFetchAnswer)

-----------------------------------------------------------------------------
(* Properties *)

\* the number of fetch calls that have been answered
Answered == IF pc = "fetch" THEN netCalls - 1 ELSE netCalls

\* a fetch has been answered, and with an HTTP response
HttpAnswered == lastResponse.net = "answer"

Is2xx(r) == r.net = "answer" /\ r.status >= 200 /\ r.status <= 299

\* every fetch answered so far failed with a retryable error
OnlyRetryable ==
    lastResponse.net # "none" /\ priorRetryable /\ RetryableFailure(variant, lastResponse)

\* every fetch answered so far got HTTP 429
Only429 == HttpAnswered /\ prior429 /\ lastResponse.status = 429

\* the call has gone past admission: the plan is built
Proceeded == pc \in {"fetch", "done"} /\ outcome # Failure(RpcRejectedMessage)

\* C1: an HTTP 400 on any attempt ends the call at once: no further network
\* call is made and the call fails with the error of that response,
\* whatever its message is.
C1_Http400Stops ==
    (HttpAnswered /\ lastResponse.status = 400)
        => /\ pc = "done"
           /\ outcome = Failure(MessageOfResponse(variant, lastResponse))

\* C2: a failed response on an attempt that is not the last, whose message
\* carries "safety" or "blocked" in any letter case, ends the call at once
\* with that error.
C2_MarkerStops ==
    (/\ HttpAnswered
     /\ ~Is2xx(lastResponse)
     /\ HasMarker(MessageOfResponse(variant, lastResponse))
     /\ Answered < Len(attempts))
        => /\ pc = "done"
           /\ outcome = Failure(MessageOfResponse(variant, lastResponse))

\* C3: when the attempts before position k all failed with retryable errors
\* and attempt k is answered 2xx, the call returns Success with the token of
\* attempt k after exactly k fetch calls and issues no further attempt; and
\* as long as the answers are retryable failures the call does not end
\* before the plan is exhausted, so that attempt k is reached.
C3_SuccessAtK ==
    /\ (Is2xx(lastResponse) /\ priorRetryable)
          => /\ pc = "done"
             /\ outcome.kind = "success"
             /\ outcome.successfulToken = attempts[i].token
             /\ netCalls = i
    /\ (pc = "done" /\ OnlyRetryable) => netCalls = Len(attempts)
    /\ (pc = "fetch") => (netCalls = i /\ i <= Len(attempts) /\ outcome = Pending)

\* the case of C3: 500, 500, 200 on a 3-entry plan
C3_Witness ==
    /\ pc = "done"
    /\ Len(attempts) = 3
    /\ netCalls = 3
    /\ priorRetryable
    /\ Is2xx(lastResponse)
    /\ outcome.kind = "success"
    /\ outcome.successfulToken = attempts[3].token

\* C4: when every attempt of an N-entry plan of a call without specificToken
\* is answered HTTP 429, the call fails after exactly N fetch calls and
\* addLogEntry has been called exactly once, whatever the messages are.
\* Stated for the 429 answers that are retryable, those whose message
\* carries no "safety" or "blocked" marker.
C4_Exhausted429 ==
    (pc = "done" /\ specificToken = NoToken /\ Only429 /\ OnlyRetryable)
        => /\ outcome.kind = "error"
           /\ netCalls = Len(attempts)
           /\ logEntries = 1

\* C5: a retryable failure (HTTP 401, 429, 5xx, or a transport failure) of
\* an attempt that is not the last is never surfaced: the step that
\* receives it issues the next attempt of the plan and the call stays
\* pending.
C5_RetryableAdvances ==
    [][ (pc = "fetch" /\ i < Len(attempts) /\ RetryableFailure(variant, lastResponse'))
            => /\ pc' = "fetch"
               /\ i' = i + 1
               /\ netCalls' = netCalls + 1
               /\ outcome' = Pending
               /\ logEntries' = logEntries ]_vars

\* the case of C5: a transport failure of the first attempt, the second
\* attempt in flight
C5_Witness ==
    /\ pc = "fetch"
    /\ i = 2
    /\ netCalls = 2
    /\ lastResponse = TransportFailure
    /\ outcome = Pending

\* no personal token, no pool token and no specificToken
NoCredentials ==
    personalAuthToken = NoToken /\ veoAuthTokens = <<>> /\ specificToken = NoToken

\* C6, as claimed: with no personal token, no pool token and no
\* specificToken the call fails with the precondition error and makes no
\* network call of any kind: no fetch and no admission request.
C6_Original ==
    NoCredentials
        => /\ netCalls = 0
           /\ slotRequests = 0
           /\ pc = "done" => outcome = Failure(NoTokensMessage(variant))

\* C6, amended: with no personal token, no pool token and no specificToken
\* the call issues no fetch and never returns Success. A call that is not
\* generation-class makes no admission request either and fails with the
\* precondition error in its first step. A generation-class call asks the
\* admission service before it builds its plan, and fails with the
\* precondition error once the admission service has answered.
C6_NoTokensNoFetch ==
    NoCredentials
        => /\ netCalls = 0
           /\ attempts = <<>>
           /\ outcome.kind # "success"
           /\ pc # "fetch"
           /\ ~isGenerationRequest(logContext)
                 => /\ slotRequests = 0
                    /\ pc = "done" => outcome = Failure(NoTokensMessage(variant))
           /\ (isGenerationRequest(logContext) /\ pc = "done")
                 => /\ slotRequests >= 1
                    /\ Last(slotAnswers) # "rejects"
                          => outcome = Failure(NoTokensMessage(variant))

\* the case of C6: a generation-class call without any token has asked for
\* its slot and then failed with the precondition error
C6_Witness ==
    /\ NoCredentials
    /\ isGenerationRequest(logContext)
    /\ pc = "done"
    /\ slotRequests = 1
    /\ netCalls = 0
    /\ outcome = Failure(NoTokensMessage(variant))

\* C7: when the admission call fails (it returns an error, or it rejects),
\* no further slot request is made, the call goes on to build its plan and
\* dispatch, and the admission failure is not the error of the call.
C7_AdmissionFailsOpen ==
    (slotAnswers # <<>> /\ Last(slotAnswers) \in {"error", "rejects"})
        => /\ slotRequests = Len(slotAnswers)
           /\ pc \in {"fetch", "done"}
           /\ outcome # Failure(RpcRejectedMessage)

\* the number of denials among the answers of the admission service
Denials == Cardinality({ k \in 1..Len(slotAnswers) : slotAnswers[k] = "denied" })

\* C8, as claimed: a denial is followed by a backoff wait and another slot
\* request, at most 3 slot requests are made, and the call never goes on
\* after a first denial without having waited and asked again.
C8_Original ==
    /\ slotRequests <= 3
    /\ (Proceeded /\ slotAnswers # <<>> /\ slotAnswers[1] = "denied")
          => (waits >= 1 /\ slotRequests >= 2)

\* C8, amended: no call makes more than 3 slot requests. In part_001 every
\* denial is followed by a backoff wait, the call asks again after the
\* first and the second denial, and goes on after a denial only when 3
\* requests have been denied. In src/services/apiClient.ts and part_002
\* one slot request is made, no wait, and the call goes on whatever the
\* answer is, unless the request rejects.
C8_SlotRequests ==
    /\ slotRequests <= 3
    /\ variant = "part_001" =>
          /\ pc # "slot" => waits = Denials
          /\ pc = "slot" => (waits = Denials /\ slotRequests = Len(slotAnswers) + 1)
          /\ (Proceeded /\ slotAnswers # <<>> /\ Last(slotAnswers) = "denied")
                => (slotRequests = 3 /\ Denials = 3 /\ waits = 3)
          /\ (Proceeded /\ slotAnswers # <<>> /\ slotAnswers[1] = "denied")
                => (waits >= 1 /\ slotRequests >= 2)
    /\ variant # "part_001" =>
          /\ slotRequests <= 1
          /\ waits = 0
          /\ (slotAnswers # <<>> /\ Last(slotAnswers) # "rejects") => Proceeded

\* the case of C8: three denials, three waits, then the first fetch
C8_Witness ==
    /\ variant = "part_001"
    /\ slotAnswers = <<"denied", "denied", "denied">>
    /\ waits = 3
    /\ pc = "fetch"

\* C9, as claimed: a 2xx response whose body lacks the result is not
\* returned as Success.
C9_Original ==
    (Is2xx(lastResponse) /\ ~ParseBody(variant, lastResponse).hasResult)
        => outcome.kind # "success"

\* C9, amended: every 2xx response ends the call with Success at once, with
\* the parsed body as data and the token of the answered attempt, whether or
\* not the body has the result; no further attempt is issued.
C9_Any2xxIsSuccess ==
    Is2xx(lastResponse)
        => /\ pc = "done"
           /\ outcome = Success(ParseBody(variant, lastResponse), attempts[i].token)
           /\ netCalls = i

\* the case of C9: Success returned for a parsed 2xx body without the result
C9_Witness ==
    /\ Is2xx(lastResponse)
    /\ lastResponse.json
    /\ ~lastResponse.hasResult
    /\ outcome.kind = "success"
    /\ i < Len(attempts)

\* C10: no (credential, server) pair is at two positions of a plan.
C10_NoDuplicatePair ==
    \A a, b \in 1..Len(attempts) :
        (attempts[a].token = attempts[b].token /\ attempts[a].serverUrl = attempts[b].serverUrl)
            => a = b

\* the call is robust: no specificToken
Robust == specificToken = NoToken

\* the plan has been built
PlanBuilt == pc \in {"fetch", "done"} /\ outcome # Failure(RpcRejectedMessage)

\* the positions of the plan that target the current server
OnCurrent == { k \in 1..Len(attempts) : attempts[k].serverUrl = currentServerUrl }

\* C11, as claimed: in a robust plan built with a personal token and a
\* non-empty pool, the personal token on the current server is at position 1
\* and precedes every pool entry on the current server.
C11_Original ==
    (PlanBuilt /\ Robust /\ personalAuthToken # NoToken /\ veoAuthTokens # <<>>)
        => /\ attempts[1] = Attempt(personalAuthToken, currentServerUrl, "Personal")
           /\ \A k \in OnCurrent : attempts[k].source = "Pool" => k > 1

\* C11, amended: in a robust plan built with a personal token and a
\* non-empty pool, src/services/apiClient.ts and part_002 put the personal
\* token on the current server at position 1, before every pool entry, for
\* every outcome of the shuffle. part_001 puts the pool entries first and
\* the personal token last, and leaves the personal entry out when the
\* personal token is one of the pool entries taken.
C11_PersonalOrder ==
    (PlanBuilt /\ Robust /\ personalAuthToken # NoToken /\ veoAuthTokens # <<>>)
        => /\ variant # "part_001" =>
                /\ attempts[1] = Attempt(personalAuthToken, currentServerUrl, "Personal")
                /\ \A k \in OnCurrent : k > 1 => attempts[k].source = "Pool"
           /\ variant = "part_001" =>
                /\ attempts[1].source = "Pool"
                /\ \A k \in 1..Len(attempts) :
                      attempts[k].source = "Personal" => k = Len(attempts)
                /\ (\E k \in 1..Len(attempts) : attempts[k].source = "Personal")
                      <=> ~\E k \in 1..Len(attempts) :
                              attempts[k].source = "Pool" /\ attempts[k].token = personalAuthToken

\* the case of C11: the personal token, then two pool tokens
C11_Witness ==
    /\ variant = "part_002"
    /\ Robust
    /\ Len(veoAuthTokens) = 2
    /\ pc = "fetch"
    /\ Len(attempts) >= 3
    /\ attempts[1].source = "Personal"
    /\ attempts[2].source = "Pool"
    /\ attempts[3].source = "Pool"
    /\ attempts[3].serverUrl = currentServerUrl

\* C12: in a robust plan every attempt on the current server precedes every
\* attempt on a backup server, for every outcome of the random draws.
C12_CurrentServerFirst ==
    (PlanBuilt /\ Robust)
        => \A a, b \in 1..Len(attempts) :
              (attempts[a].serverUrl = currentServerUrl /\ attempts[b].serverUrl # currentServerUrl)
                  => a < b

\* the case of C12: attempts on the current server and on two backup servers
C12_Witness ==
    /\ Robust
    /\ pc = "fetch"
    /\ OnCurrent # {}
    /\ \E a, b \in 1..Len(attempts) :
          /\ attempts[a].serverUrl # currentServerUrl
          /\ attempts[b].serverUrl # currentServerUrl
          /\ attempts[a].serverUrl # attempts[b].serverUrl
    /\ \E a \in 1..Len(attempts) :
          attempts[a].serverUrl # currentServerUrl /\ attempts[a].source = "Pool"

\* the call is an integrity check: its label says HEALTH CHECK
HealthCheckContext == ContextIncludes(logContext, "HEALTH CHECK")

\* C13: a strict call that is a health check has the one-pair plan
\* (specificToken, current server, Specific), and in the whole call every
\* fetch carries specificToken to the current server, whatever the
\* credential store holds.
C13_StrictHealthCheck ==
    (specificToken # NoToken /\ HealthCheckContext)
        => /\ PlanBuilt =>
                attempts = << Attempt(specificToken, currentServerUrl, "Specific") >>
           /\ Len(sent) <= 1
           /\ netCalls = Len(sent)
           /\ \A k \in 1..Len(sent) :
                 sent[k] = [token |-> specificToken, serverUrl |-> currentServerUrl]

\* the case of C13: a health check with a personal token and a pool in the
\* store has failed after its one fetch
C13_Witness ==
    /\ variant = "part_002"
    /\ specificToken # NoToken
    /\ HealthCheckContext
    /\ personalAuthToken # NoToken
    /\ veoAuthTokens # <<>>
    /\ pc = "done"
    /\ outcome.kind = "error"
    /\ Len(sent) = 1

\* the pool entries that are among the five newest of the stored pool
NewestFive ==
    { k \in 1..Len(veoAuthTokens) :
        Cardinality({ m \in 1..Len(veoAuthTokens) :
                        veoAuthTokens[m].createdAt > veoAuthTokens[k].createdAt }) < 5 }

\* C14, as claimed: the plan of a strict call that is not a health check is
\* specificToken on the current server followed by at most 5 pool fallbacks
\* on the current server, and there are fallbacks whenever the pool is not
\* empty.
C14_Original ==
    (PlanBuilt /\ specificToken # NoToken /\ ~HealthCheckContext)
        => /\ attempts[1] = Attempt(specificToken, currentServerUrl, "Specific")
           /\ Len(attempts) <= 6
           /\ \A k \in 2..Len(attempts) :
                 attempts[k].source = "Pool" /\ attempts[k].serverUrl = currentServerUrl
           /\ veoAuthTokens # <<>> => Len(attempts) >= 2

\* C14, amended: in part_002 the plan of a strict call that is not a health
\* check is specificToken on the current server followed by the five newest
\* pool tokens on the current server, newest first, a token being left out
\* when its last six characters are those of a token already in the plan;
\* so there are at most 5 fallbacks, none on another server. In
\* src/services/apiClient.ts and part_001 the plan of every strict call is
\* the one pair (specificToken, current server).
C14_StrictFallbacks ==
    (PlanBuilt /\ specificToken # NoToken /\ ~HealthCheckContext)
        => /\ attempts[1] = Attempt(specificToken, currentServerUrl, "Specific")
           /\ variant # "part_002" => Len(attempts) = 1
           /\ variant = "part_002" =>
                /\ Len(attempts) <= 6
                /\ \A k \in 2..Len(attempts) :
                      /\ attempts[k].source = "Pool"
                      /\ attempts[k].serverUrl = currentServerUrl
                      /\ \E m \in NewestFive : veoAuthTokens[m].token = attempts[k].token
                /\ \A m \in NewestFive :
                      \E k \in 1..Len(attempts) :
                          Slice6(attempts[k].token) = Slice6(veoAuthTokens[m].token)
                /\ \A a, b \in 2..Len(attempts) :
                      a < b => \E m, n \in NewestFive :
                                  /\ veoAuthTokens[m].token = attempts[a].token
                                  /\ veoAuthTokens[n].token = attempts[b].token
                                  /\ veoAuthTokens[m].createdAt > veoAuthTokens[n].createdAt

\* the case of C14: a pool of seven, the five newest taken as fallbacks
C14_Witness ==
    /\ variant = "part_002"
    /\ ~HealthCheckContext
    /\ Len(veoAuthTokens) = 7
    /\ pc = "fetch"
    /\ Len(attempts) = 6
    /\ attempts[2].token = tokPoolF
    /\ \A k \in 1..Len(attempts) : attempts[k].token # tokPoolB

\* C15: when specificToken, the personal token or the pool is there, the
\* plan built has at least one entry and the precondition error is not
\* raised; the precondition error is raised only when all three are empty.
C15_NonEmptyPlan ==
    PlanBuilt
        => /\ (attempts = <<>>) <=> NoCredentials
           /\ (outcome = Failure(NoTokensMessage(variant))) <=> NoCredentials
           /\ ~NoCredentials => (pc = "fetch" /\ netCalls = 1)

\* the case of C15: only the pool has a token, and the first fetch is sent
C15_Witness ==
    /\ specificToken = NoToken
    /\ personalAuthToken = NoToken
    /\ Len(veoAuthTokens) = 1
    /\ pc = "fetch"
    /\ Len(attempts) >= 1
    /\ attempts[1].source = "Pool"

\* C16: at most one fetch of a call is in flight at any time: a fetch is in
\* flight exactly while the call waits for its answer, and attempt i + 1 is
\* sent by the step that has received and classified the answer of attempt i.
C16_OneInFlight ==
    /\ inFlight <= 1
    /\ (pc = "fetch") <=> (inFlight = 1)
    /\ Len(sent) = netCalls
    /\ pc = "fetch" => (netCalls = i /\ (i > 1 => lastResponse # NoResponse))

\* the case of C16: the second attempt in flight, the first one answered
C16_Witness ==
    /\ pc = "fetch"
    /\ i = 2
    /\ Len(sent) = 2
    /\ inFlight = 1
    /\ lastResponse.net = "answer"

\* C17: a strict call never writes a failure record, whatever its outcome.
C17_StrictNeverLogs ==
    specificToken # NoToken => logEntries = 0

\* the message of the failure of the latest answered attempt
LastFailureMessage ==
    IF lastResponse.net = "failure" THEN FetchFailedMessage
    ELSE MessageOfResponse(variant, lastResponse)

\* C18: when every attempt of the plan has failed with a retryable error,
\* the error of the call carries the message of the failure of the last
\* attempt, and a robust call has written its failure record by then.
C18_LastErrorSurfaced ==
    (pc = "done" /\ OnlyRetryable /\ netCalls = Len(attempts))
        => /\ outcome = Failure(LastFailureMessage)
           /\ Robust => logEntries = 1

\* the label of the call contains GENERATE or RECIPE
GenerationClass ==
    ContextIncludes(logContext, "GENERATE") \/ ContextIncludes(logContext, "RECIPE")

\* the statuses of admission: queueing, waiting in the queue, processing
AdmissionStatuses ==
    { QueueingStatus(v) : v \in Variants } \cup { WaitingStatus(n) : n \in 1..3 }
        \cup { ProcessingStatus }

\* the statuses of apiClient.ts about an attempt
AttemptStatuses == { "Trying Personal Key...", "Optimizing connection..." }

\* C19: for a call whose label contains neither GENERATE nor RECIPE no slot
\* request is made, no backoff wait starts and the status callback receives
\* no status of admission.
C19_AdmissionOnlyForGeneration ==
    ~GenerationClass
        => /\ slotRequests = 0
           /\ slotAnswers = <<>>
           /\ waits = 0
           /\ pc \notin {"slot", "backoff"}
           /\ \A k \in 1..Len(statuses) : statuses[k] \notin AdmissionStatuses

\* the case of C19: a call that is not generation-class has sent two
\* attempts and ended without any slot request
C19_Witness ==
    /\ ~GenerationClass
    /\ pc = "done"
    /\ netCalls >= 2
    /\ slotRequests = 0

\* the positions of the processing status among the statuses received
ProcessingAt == { k \in 1..Len(statuses) : statuses[k] = ProcessingStatus }

Newest(n) ==
    { k \in 1..Len(veoAuthTokens) :
        Cardinality({ m \in 1..Len(veoAuthTokens) :
                        \/ veoAuthTokens[m].createdAt > veoAuthTokens[k].createdAt
                        \/ /\ veoAuthTokens[m].createdAt = veoAuthTokens[k].createdAt
                           /\ m < k }) < n }

\* the positions of the plan whose credential comes from the pool
FromPool == { k \in 1..Len(attempts) : attempts[k].source = "Pool" }

\* C21, as claimed: every pool credential of a plan is one of the N newest
\* pool entries, N being 10 in the robust mode of part_002 and 5 elsewhere.
C21_Original ==
    PlanBuilt
        => \A k \in FromPool :
              \E m \in Newest(IF variant = "part_002" /\ Robust THEN 10 ELSE 5) :
                  veoAuthTokens[m].token = attempts[k].token

\* C21, amended: in src/services/apiClient.ts every pool credential of a
\* plan is one of the 5 newest pool entries, in part_002 one of the 10
\* newest in the robust mode and one of the 5 newest in the strict mode,
\* for every outcome of the shuffle. In part_001 the shuffle runs over the
\* whole pool in its stored order and the first 5 of the outcome are taken:
\* a plan holds at most 5 pool credentials, and any entry of the pool,
\* however old, can be among them.
C21_EligibleNewest ==
    PlanBuilt
        => /\ variant = "apiClient" =>
                \A k \in FromPool :
                    \E m \in Newest(5) : veoAuthTokens[m].token = attempts[k].token
           /\ variant = "part_002" =>
                \A k \in FromPool :
                    \E m \in Newest(IF Robust THEN 10 ELSE 5) :
                        veoAuthTokens[m].token = attempts[k].token
           /\ variant = "part_001" =>
                /\ Cardinality(FromPool) <= 5
                /\ \A k \in FromPool :
                      \E m \in 1..Len(veoAuthTokens) :
                          veoAuthTokens[m].token = attempts[k].token

\* the case of C21: a pool of eleven, the ten newest taken by part_002 and
\* the oldest left out
C21_Witness ==
    /\ variant = "part_002"
    /\ Robust
    /\ Len(veoAuthTokens) = 11
    /\ pc = "fetch"
    /\ \A m \in 2..11 : \E k \in FromPool : attempts[k].token = veoAuthTokens[m].token
    /\ \A k \in FromPool : attempts[k].token # veoAuthTokens[1].token

\* the array of the session holds a null element
NullElement == \E k \in 1..Len(veoAuthTokens) : veoAuthTokens[k] = NullEntry

\* C22: a robust call over a corrupt store never ends in an exception of
\* the store: an unparseable or absent user gives no personal attempt; a
\* pool that is unparseable, no array, or an array with a null element
\* gives no pool attempt; the call ends in the precondition error when no
\* valid source is left and sends its first fetch otherwise.
C22_CorruptStoreDegrades ==
    (PlanBuilt /\ Robust)
        => /\ outcome # Failure(NullReadMessage)
           /\ currentUser # "object" =>
                \A k \in 1..Len(attempts) : attempts[k].source # "Personal"
           /\ (tokensJSON # "array" \/ NullElement) => FromPool = {}
           /\ IF \/ personalAuthToken # NoToken
                 \/ (veoAuthTokens # <<>> /\ ~NullElement)
              THEN pc = "fetch"
              ELSE outcome = Failure(NoTokensMessage(variant))

\* the servers of the plan that are not the current server
AlternateServers ==
    { attempts[k].serverUrl : k \in 1..Len(attempts) } \ { currentServerUrl }

OnServer(s) == { k \in 1..Len(attempts) : attempts[k].serverUrl = s }

\* C24: in a robust plan the attempts on each alternate server are the
\* personal token first, when there is one, then pool tokens only, at most
\* 3 of them (at most 2 in src/services/apiClient.ts); and the plan is no
\* longer than 1 + N + B * (1 + K), N being the number of eligible pool
\* tokens, B the number of alternate servers and K that cap.
C24_BackupAttempts ==
    (PlanBuilt /\ Robust)
        => LET K == IF variant = "part_002" THEN 3 ELSE 2
               N == Min(Len(veoAuthTokens), IF variant = "part_002" THEN 10 ELSE 5)
               B == Cardinality(AlternateServers)
           IN  /\ \A s \in AlternateServers :
                     LET first == CHOOSE k \in OnServer(s) : \A m \in OnServer(s) : k <= m
                     IN  /\ personalAuthToken # NoToken =>
                               attempts[first] = Attempt(personalAuthToken, s, "Personal")
                         /\ \A k \in OnServer(s) :
                               (k # first \/ personalAuthToken = NoToken)
                                   => attempts[k].source = "Pool"
                         /\ Cardinality(OnServer(s) \cap FromPool) <= K
               /\ Len(attempts) <= 1 + N + B * (1 + K)

\* the case of C24: part_002 with a personal token and a pool of eleven,
\* the ten newest on the current server, then the personal token and three
\* pool tokens on each of two alternate servers
C24_Witness ==
    /\ variant = "part_002"
    /\ Robust
    /\ personalAuthToken # NoToken
    /\ Len(veoAuthTokens) = 11
    /\ pc = "fetch"
    /\ Len(attempts) = 19
    /\ attempts[12] = Attempt(personalAuthToken, attempts[12].serverUrl, "Personal")
    /\ attempts[12].serverUrl # currentServerUrl
    /\ \A k \in 13..15 : attempts[k].source = "Pool"
    /\ attempts[16].source = "Personal"

\* C25, the resources: the call issues at most one fetch per entry of its
\* plan and at most SlotTries admission requests, and no fetch carries the
\* (credential, server) pair of an earlier fetch of the call.
C25_BoundedNoRepeat ==
    /\ PlanBuilt => netCalls <= Len(attempts)
    /\ netCalls = Len(sent)
    /\ slotRequests <= SlotTries
    /\ waits <= SlotTries
    /\ \A a, b \in 1..Len(sent) : sent[a] = sent[b] => a = b

\* C25, the termination: when every await settles the call returns or throws.
C25_Terminates == <>(pc = "done" /\ outcome.kind \in {"success", "error"})

\* What the call with the plan and the responses rs reaches when it runs
\* alone, from attempt k on.
RECURSIVE RunAlone(_, _, _, _, _, _)
RunAlone(v, specific, plan, rs, k, prevError) ==
    IF k > Len(rs) \/ k > Len(plan) THEN Pending
    ELSE LET res == TryAttempt(v, specific, rs[k], k = Len(plan), prevError)
         IN  CASE res.act = "return" -> Success(res.data, plan[k].token)
               [] res.act = "throw"  -> Failure(res.lastError)
               [] OTHER              -> RunAlone(v, specific, plan, rs, k + 1, res.lastError)

\* The call with the locals c has sent the entries of its own plan, in the
\* order of the plan, and is where it would be alone after the responses it
\* has received.
OwnCourse(c) ==
    /\ Len(c.sent) <= Len(c.attempts)
    /\ c.netCalls = Len(c.sent)
    /\ \A k \in 1..Len(c.sent) :
          c.sent[k] = Request(variant, c.attempts[k], c.serviceType,
                              hostname, selectedProxyServer)
    /\ c.attempts # <<>> =>
          /\ c.outcome = RunAlone(variant, c.specificToken, c.attempts, c.received,
                                  1, UnknownError)
          /\ c.pc = "fetch" => Len(c.sent) = Len(c.received) + 1
          /\ c.pc = "done" => Len(c.sent) = Len(c.received)

\* C26: with two calls running under any interleaving of their steps, each
\* call sends the entries of its own plan in the order of the plan and
\* reaches what it would reach alone after the responses it received; a
\* step of one call leaves the locals of the other call as they were, and
\* no step writes to the stores the calls read.
C26_CallsIndependent ==
    [][ /\ OwnCourse(Running)' /\ OwnCourse(other)'
        /\ other' = other \/ (other' = Running /\ Running' = other)
        /\ UNCHANGED <<currentUser, personalAuthToken, tokensJSON, veoAuthTokens,
                       selectedProxyServer, hostname>> ]_vars

\* the case of C26: both calls are over, each after a first attempt of its
\* own that failed while the other call was under way, one with a success
\* and one with an error
C26_Witness ==
    /\ Concurrent
    /\ pc = "done" /\ other.pc = "done"
    /\ Len(received) = 2 /\ Len(other.received) = 2
    /\ outcome.kind = "success" /\ other.outcome.kind = "error"
    /\ specificToken = NoToken /\ other.specificToken = NoToken

\* C27: whatever is written to the credential store or to the server
\* selection while the call is under way, every fetch of the call carries
\* the credential of its plan entry to the server of its plan entry, as the
\* plan was built.
C27_PlanFixed ==
    PlanBuilt
        => \A k \in 1..Len(sent) :
              sent[k] = [token |-> attempts[k].token, serverUrl |-> attempts[k].serverUrl]

\* C28: no step of executeProxiedRequest writes to the credential store or
\* to the server selection: the user, the personal token, the pool and the
\* selected server are after every step what they were before it, the step
\* that returns a success from a backup server or with a pool token included.
C28_StoresUntouched ==
    [][ UNCHANGED <<currentUser, personalAuthToken, tokensJSON, veoAuthTokens,
                    selectedProxyServer>> ]_vars

\* the case of C28: a robust call has returned the success of a pool token
\* on a backup server, and no server is selected
C28_Witness ==
    /\ Robust
    /\ pc = "done"
    /\ outcome.kind = "success"
    /\ outcome.successfulToken = tokPoolA
    /\ attempts[i].source = "Pool"
    /\ attempts[i].serverUrl # currentServerUrl
    /\ selectedProxyServer = ""

C30_NonJsonClassified ==
    (HttpAnswered /\ ~lastResponse.json /\ ~Is2xx(lastResponse))
        => LET carriesStatus ==
                   /\ outcome.kind = "error"
                   /\ Includes(outcome.message, "non-JSON")
                   /\ Includes(outcome.message, StatusText(lastResponse.status))
           IN  IF lastResponse.status = 400 \/ Answered = Len(attempts)
               THEN pc = "done" /\ carriesStatus
               ELSE pc = "fetch" /\ i = Answered + 1 /\ outcome = Pending

\* the case of C30: a body that is no JSON came with HTTP 400 and the call
\* has stopped with attempts left; before it, one came with a retryable
\* status and the call went on
C30_Witness ==
    /\ HttpAnswered
    /\ ~lastResponse.json
    /\ lastResponse.status = 400
    /\ pc = "done"
    /\ Answered = 2
    /\ Answered < Len(attempts)
    /\ Includes(outcome.message, "non-JSON")

\* the latest answer is an error response of the terminal class: HTTP 400,
\* or a message with the "safety" or the "blocked" marker
TerminalAnswer ==
    /\ HttpAnswered
    /\ ~Is2xx(lastResponse)
    /\ \/ lastResponse.status = 400
       \/ HasMarker(MessageOfResponse(variant, lastResponse))

\* C31: a robust call that ends with a terminal error, at any position of
\* the plan, the last included, has written no failure record; a failure
\* record is there only when the plan is exhausted and its last error is of
\* the retryable class.
C31_TerminalNeverLogged ==
    Robust
        => /\ (pc = "done" /\ outcome.kind = "error" /\ TerminalAnswer) => logEntries = 0
           /\ logEntries > 0 =>
                /\ pc = "done"
                /\ netCalls = Len(attempts)
                /\ RetryableFailure(variant, lastResponse)

\* C32: the two classification points of the loop agree on every failure
\* the call has met: the catch handler re-throws the error of an error
\* response at once exactly when the stop condition of the response branch
\* holds of it (status 400, or a "safety" or "blocked" message), and never
\* re-throws a transport failure at once; so an error classified terminal
\* ends the call and is not retried.
C32_ClassificationsAgree ==
    /\ (HttpAnswered /\ ~Is2xx(lastResponse))
          => /\ CatchRethrows(MessageOfResponse(variant, lastResponse))
                  <=> \/ lastResponse.status = 400
                      \/ HasMarker(MessageOfResponse(variant, lastResponse))
             /\ TerminalAnswer => pc = "done"
    /\ lastResponse.net = "failure" => ~CatchRethrows(FetchFailedMessage)

\* C33: the data of a Success is never the synthesized error payload: a 2xx
\* response whose body is no JSON is not returned as the successful data.
C33_NoSynthesizedSuccess ==
    outcome.kind = "success" => ~outcome.data.synthesized

\* C34: in a robust plan every credential attempted on an alternate server
\* is at an earlier position of the plan on the current server: phase 2
\* brings in no credential that phase 1 did not try.
C34_BackupCredentialsTried ==
    (PlanBuilt /\ Robust)
        => \A b \in 1..Len(attempts) :
              attempts[b].serverUrl # currentServerUrl
                  => \E a \in 1..(b - 1) :
                        /\ attempts[a].serverUrl = currentServerUrl
                        /\ attempts[a].token = attempts[b].token

\* the case of C34: a pool of two tokens that end in the same six
\* characters; the one the shuffle put first is tried on the current server
\* and on an alternate server, the other on neither
C34_Witness ==
    /\ variant = "part_002"
    /\ Robust
    /\ personalAuthToken # NoToken
    /\ pc = "fetch"
    /\ Len(attempts) = 6
    /\ attempts[2] = Attempt(tokPoolA2, currentServerUrl, "Pool")
    /\ attempts[4].token = tokPoolA2
    /\ attempts[4].serverUrl # currentServerUrl
    /\ \A k \in 1..Len(attempts) : attempts[k].token # tokPoolA
    /\ \E k \in 1..Len(veoAuthTokens) : veoAuthTokens[k].token = tokPoolA

\* C35: in a robust plan of part_002 every distinct eligible credential is
\* tried on the current server: the personal token, when the user has one,
\* and every token of the pool (no pool of PlanSpec exceeds the cap of ten)
\* each stand in an attempt on currentServerUrl. addAttempt drops an
\* attempt only for an entry with the same credential and the same server.
C35_DistinctBothTried ==
    (variant = "part_002" /\ PlanBuilt /\ Robust)
        => /\ personalAuthToken # NoToken
                => \E a \in 1..Len(attempts) :
                      /\ attempts[a].token = personalAuthToken
                      /\ attempts[a].serverUrl = currentServerUrl
           /\ \A k \in 1..Len(veoAuthTokens) :
                 \E a \in 1..Len(attempts) :
                    /\ attempts[a].token = veoAuthTokens[k].token
                    /\ attempts[a].serverUrl = currentServerUrl

\* a batch is under way: a timer of it is pending or one of its generations
\* is in flight
BatchRunning ==
    \/ view.timers # {}
    \/ \E gen \in view.generations : gen.batch

\* the step in which isGenerating becomes false
BatchEnds == view.isGenerating /\ ~view'.isGenerating

\* C36: a batch started by handleGenerateBatch completes. isGenerating is
\* true exactly while a timer of the batch is pending or a generation of the
\* batch is in flight; in the step in which it becomes false every one of
\* the six slots has been left in 'success' or 'failed' by its generation of
\* the batch and no slot shows 'loading'; and, timers firing and fetches being
\* answered, isGenerating does become false, whatever each slot's generation
\* ends in (an image, an HTTP failure, a rejected fetch, no image, no token).
C36_BatchCompletes ==
    /\ [](BatchRunning <=> view.isGenerating)
    /\ [][BatchEnds => \A index \in SLOTS :
                          /\ view'.settled[index] \in {"success", "failed"}
                          /\ view'.slots[index].status # "loading"]_vars
    /\ (view.isGenerating ~> ~view.isGenerating)

\* the case of C36: a batch is over in which one slot got its image, one an
\* HTTP failure, one a rejected fetch and one had no token
C36_Witness ==
    /\ ~view.isGenerating
    /\ \A index \in SLOTS : view.settled[index] # "none"
    /\ view.slots[0].status = "success"
    /\ view.slots[1].error = GenerationFailedMessage
    /\ view.slots[2].error = FetchFailedMessage
    /\ view.slots[3].error = NoAuthTokenMessage

\* the generations of a slot that are in flight
InFlightOn(index) == { gen \in view.generations : gen.index = index }

\* C37: for each slot at most one generation is in flight, and the status a
\* slot shows was written by the most recent action on it (its reset, the
\* start of a batch, or its latest generation): no earlier generation's
\* result has overwritten it.
C37_LatestActionWins ==
    \A index \in SLOTS :
        /\ Cardinality(InFlightOn(index)) <= 1
        /\ view.writer[index] = view.epoch[index]


=============================================================================
